---------------------------- MODULE Spec2Model ----------------------------
(***************************************************************************)
(* A model of sigma-rs: linear relations over a prime-order group, the     *)
(* generalized Schnorr Sigma protocol driven by them, and the Fiat-Shamir  *)
(* wrapper NISigmaProtocol.                                                *)
(*                                                                         *)
(* The group G is the additive group Z_Q and its scalar field is Z_Q.      *)
(* Indices are 0-based as in the source; a Rust Vec v is a TLA+ sequence   *)
(* whose element i is v[i + 1].                                            *)
(***************************************************************************)
EXTENDS Integers, Sequences, FiniteSets, TLC

VARIABLES
    sigmap,      \* NISigmaProtocol.sigmap: the SchnorrProof's LinearRelation
    hash_state,  \* NISigmaProtocol.hash_state: the template codec
    iv,          \* the IV the wrapper was constructed with (history)
    proof,       \* the proof most recently issued by a prove* call (history)
    last,        \* the most recent call: its name, arguments and result
    running      \* the calls in progress on the wrapper, one per caller

vars == <<sigmap, hash_state, iv, proof, last, running>>

-----------------------------------------------------------------------------
(* The group layer: G = (Z_Q, +), Scalar = Z_Q. The code requires a group  *)
(* of prime order; Q is the smallest odd prime.                            *)

Q == 3

Scalars == 0 .. (Q - 1)
Elements == 0 .. (Q - 1)

G_identity == 0
G_generator == 1

FAdd(a, b) == (a + b) % Q
FSub(a, b) == (a + Q - b) % Q
FMul(a, b) == (a * b) % Q

\* p * s for p in G and s a scalar
GMul(p, s) == (p * s) % Q

\* Rust's Option<G>
None == <<>>
Some(g) == <<g>>

\* Rust's Result, and a third outcome for a panic (an out-of-range index,
\* a failed assert_eq!, an unwrap of Err).
Ok(v) == [tag |-> "Ok", err |-> "", val |-> v]
Err(e) == [tag |-> "Err", err |-> e, val |-> <<>>]
Panic == [tag |-> "Panic", err |-> "", val |-> <<>>]

IsOk(r) == r.tag = "Ok"

\* Rust's `?`: the value of an Ok goes on to F, anything else is returned
Try(r, F(_)) == IF IsOk(r) THEN F(r.val) ELSE r

\* The sequence s with every element mapped by Op
SeqOf(S, n) == [1 .. n -> S]

-----------------------------------------------------------------------------
(* GroupMap: Vec<Option<G>>                                                *)

GroupMap_default == <<>>

\* Vec::resize(n, None) of a shorter vector
Resize(map, n) == [i \in 1 .. n |-> IF i <= Len(map) THEN map[i] ELSE None]

\* assign_element that overwrites an assigned slot
assign_element_overwriting(map, var, element) ==
    IF Len(map) <= var
    THEN Ok([Resize(map, var + 1) EXCEPT ![var + 1] = Some(element)])
    ELSE Ok([map EXCEPT ![var + 1] = Some(element)])

GroupMap_assign_element(map, var, element) ==
    IF Len(map) <= var
    THEN Ok([Resize(map, var + 1) EXCEPT ![var + 1] = Some(element)])
    ELSE IF map[var + 1] # None /\ map[var + 1] # Some(element)
         THEN Panic
         ELSE Ok([map EXCEPT ![var + 1] = Some(element)])

\* assignments: a sequence of <<var, element>> pairs
RECURSIVE GroupMap_assign_elements(_, _)
GroupMap_assign_elements(map, assignments) ==
    IF assignments = <<>>
    THEN Ok(map)
    ELSE Try(GroupMap_assign_element(map, Head(assignments)[1], Head(assignments)[2]),
             LAMBDA assigned : GroupMap_assign_elements(assigned, Tail(assignments)))

GroupMap_get(map, var) ==
    IF var >= Len(map)
    THEN Panic
    ELSE IF map[var + 1] = None
         THEN Err("UnassignedGroupVar")
         ELSE Ok(map[var + 1][1])

-----------------------------------------------------------------------------
(* LinearMap and LinearRelation                                            *)

Term(scalar, elem) == [scalar |-> scalar, elem |-> elem]

LinearRelation_new ==
    [constraints |-> <<>>, group_elements |-> GroupMap_default,
     num_scalars |-> 0, num_elements |-> 0, image |-> <<>>]

num_constraints(rel) == Len(rel.constraints)

\* msm_pr that stops after the first pair
msm_pr_first_pair(scalars, bases) ==
    IF scalars = <<>> \/ bases = <<>>
    THEN G_identity
    ELSE GMul(Head(bases), Head(scalars))

RECURSIVE msm_pr(_, _)
msm_pr(scalars, bases) ==
    IF scalars = <<>> \/ bases = <<>>
    THEN G_identity
    ELSE FAdd(GMul(Head(bases), Head(scalars)), msm_pr(Tail(scalars), Tail(bases)))

\* lc.0.iter().map(|term| scalars[term.scalar.0]).collect()
Coefficients(lc, scalars) ==
    IF \E k \in 1 .. Len(lc) : lc[k].scalar >= Len(scalars)
    THEN Panic
    ELSE Ok([k \in 1 .. Len(lc) |-> scalars[lc[k].scalar + 1]])

\* lc.0.iter().map(|term| group_elements.get(term.elem)).collect::<Result<Vec<_>, _>>()
RECURSIVE CollectElements(_, _)
CollectElements(map, lc) ==
    IF lc = <<>>
    THEN Ok(<<>>)
    ELSE Try(GroupMap_get(map, Head(lc).elem), LAMBDA g :
         Try(CollectElements(map, Tail(lc)), LAMBDA rest :
         Ok(<<g>> \o rest)))

EvaluateConstraint(map, lc, scalars) ==
    Try(Coefficients(lc, scalars), LAMBDA coefficients :
    Try(CollectElements(map, lc), LAMBDA elements :
    Ok(msm_pr(coefficients, elements))))

RECURSIVE EvaluateFrom(_, _, _)
EvaluateFrom(map, constraints, scalars) ==
    IF constraints = <<>>
    THEN Ok(<<>>)
    ELSE Try(EvaluateConstraint(map, Head(constraints), scalars), LAMBDA e :
         Try(EvaluateFrom(map, Tail(constraints), scalars), LAMBDA rest :
         Ok(<<e>> \o rest)))

LinearMap_evaluate(rel, scalars) ==
    EvaluateFrom(rel.group_elements, rel.constraints, scalars)

append_equation(rel, lhs, rhs) ==
    [rel EXCEPT !.constraints = Append(@, rhs), !.image = Append(@, lhs)]

\* allocate_scalar that leaves an index unused
allocate_scalar_skipping(rel) == [rel EXCEPT !.num_scalars = @ + 2]

allocate_scalar(rel) == [rel EXCEPT !.num_scalars = @ + 1]

allocate_element(rel) == [rel EXCEPT !.num_elements = @ + 1]

RECURSIVE allocate_scalars(_, _)
allocate_scalars(rel, n) ==
    IF n = 0 THEN rel ELSE allocate_scalars(allocate_scalar(rel), n - 1)

RECURSIVE allocate_elements(_, _)
allocate_elements(rel, n) ==
    IF n = 0 THEN rel ELSE allocate_elements(allocate_element(rel), n - 1)

\* ScalarVar(self.linear_map.num_scalars - 1), after the increment
allocate_scalar_var(rel) == allocate_scalar(rel).num_scalars - 1

\* GroupVar(self.linear_map.num_elements - 1), after the increment
allocate_element_var(rel) == allocate_element(rel).num_elements - 1

\* for var in vars.iter_mut() { *var = self.allocate_scalar(); }: the
\* relation after the loop and the array it filled
RECURSIVE allocate_scalars_array(_, _)
allocate_scalars_array(rel, n) ==
    IF n = 0
    THEN [rel |-> rel, vars |-> <<>>]
    ELSE [rel |-> allocate_scalars_array(allocate_scalar(rel), n - 1).rel,
          vars |-> <<allocate_scalar_var(rel)>>
                    \o allocate_scalars_array(allocate_scalar(rel), n - 1).vars]

RECURSIVE allocate_elements_array(_, _)
allocate_elements_array(rel, n) ==
    IF n = 0
    THEN [rel |-> rel, vars |-> <<>>]
    ELSE [rel |-> allocate_elements_array(allocate_element(rel), n - 1).rel,
          vars |-> <<allocate_element_var(rel)>>
                    \o allocate_elements_array(allocate_element(rel), n - 1).vars]

set_elements(rel, assignments) ==
    Try(GroupMap_assign_elements(rel.group_elements, assignments),
        LAMBDA assigned : Ok([rel EXCEPT !.group_elements = assigned]))

set_element(rel, var, element) ==
    Try(GroupMap_assign_element(rel.group_elements, var, element),
        LAMBDA assigned : Ok([rel EXCEPT !.group_elements = assigned]))

\* allocate_eq that takes the number of elements after the allocation as
\* the index of the new variable
allocate_eq_counting_from_one(rel, rhs) ==
    [rel |-> append_equation(allocate_element(rel), rel.num_elements + 1, rhs),
     var |-> rel.num_elements + 1]

\* let var = self.allocate_element(); self.append_equation(var, rhs); var
allocate_eq(rel, rhs) ==
    [rel |-> append_equation(allocate_element(rel), rel.num_elements, rhs),
     var |-> rel.num_elements]

\* The loop of compute_image over zip(constraints, image): the map as the
\* loop leaves it, and Ok(()), the error or the panic that ended it
RECURSIVE ComputeImageFrom(_, _, _, _)
ComputeImageFrom(map, constraints, image_, scalars) ==
    IF constraints = <<>> \/ image_ = <<>>
    THEN [map |-> map, res |-> Ok(<<>>)]
    ELSE LET msm == EvaluateConstraint(map, Head(constraints), scalars)
         IN  IF ~IsOk(msm)
             THEN [map |-> map, res |-> msm]
             ELSE IF ~IsOk(GroupMap_assign_element(map, Head(image_), msm.val))
                  THEN [map |-> map, res |-> Panic]
                  ELSE ComputeImageFrom(
                            GroupMap_assign_element(map, Head(image_), msm.val).val,
                            Tail(constraints), Tail(image_), scalars)

\* compute_image that evaluates the equations and assigns nothing
compute_image_without_assigning(rel, scalars) ==
    IF num_constraints(rel) # Len(rel.image)
    THEN [rel |-> rel, res |-> Panic]
    ELSE [rel |-> rel,
          res |-> ComputeImageFrom(rel.group_elements, rel.constraints, rel.image,
                                   scalars).res]

compute_image(rel, scalars) ==
    IF num_constraints(rel) # Len(rel.image)
    THEN [rel |-> rel, res |-> Panic]
    ELSE [rel |-> [rel EXCEPT !.group_elements =
                        ComputeImageFrom(@, rel.constraints, rel.image, scalars).map],
          res |-> ComputeImageFrom(rel.group_elements, rel.constraints, rel.image,
                                   scalars).res]

RECURSIVE ImageFrom(_, _)
ImageFrom(map, vars_) ==
    IF vars_ = <<>>
    THEN Ok(<<>>)
    ELSE Try(GroupMap_get(map, Head(vars_)), LAMBDA g :
         Try(ImageFrom(map, Tail(vars_)), LAMBDA rest :
         Ok(<<g>> \o rest)))

LinearRelation_image(rel) == ImageFrom(rel.group_elements, rel.image)

\* (x as u32).to_le_bytes()
U32LE(x) ==
    <<x % 256, (x \div 256) % 256, (x \div 65536) % 256, (x \div 16777216) % 256>>

RECURSIVE LabelTerms(_)
LabelTerms(terms) ==
    IF terms = <<>>
    THEN <<>>
    ELSE U32LE(Head(terms).scalar) \o U32LE(Head(terms).elem) \o LabelTerms(Tail(terms))

RECURSIVE LabelEquations(_, _)
LabelEquations(constraints, image_) ==
    IF constraints = <<>> \/ image_ = <<>>
    THEN <<>>
    ELSE U32LE(Head(image_)) \o U32LE(Len(Head(constraints)))
            \o LabelTerms(Head(constraints))
            \o LabelEquations(Tail(constraints), Tail(image_))

\* label that writes the number of equations as one byte
label_with_short_count(rel) ==
    IF Len(rel.image) # Len(rel.constraints)
    THEN Panic
    ELSE Ok(<<Len(rel.image) % 256>> \o LabelEquations(rel.constraints, rel.image))

LinearRelation_label(rel) ==
    IF Len(rel.image) # Len(rel.constraints)
    THEN Panic
    ELSE Ok(U32LE(Len(rel.image)) \o LabelEquations(rel.constraints, rel.image))


-----------------------------------------------------------------------------
(* Serialization: canonical fixed-length encodings, little-endian, one     *)
(* byte being a number in 0 .. 255. A decoding is canonical when the       *)
(* number it encodes is below the group order.                             *)

ElemReprLen == 2
ScalarReprLen == 1

RECURSIVE ToLE(_, _)
ToLE(x, n) == IF n = 0 THEN <<>> ELSE <<x % 256>> \o ToLE(x \div 256, n - 1)

RECURSIVE FromLE(_)
FromLE(bytes) == IF bytes = <<>> THEN 0 ELSE Head(bytes) + 256 * FromLE(Tail(bytes))

\* GroupEncoding::to_bytes
serialize_element(g) == ToLE(g, ElemReprLen)

serialize_scalar(s) == ToLE(s, ScalarReprLen)

\* Option<G>: None for a wrong length or a non-canonical encoding
deserialize_element(bytes) ==
    IF Len(bytes) = ElemReprLen /\ FromLE(bytes) < Q THEN Some(FromLE(bytes)) ELSE None

deserialize_scalar(bytes) ==
    IF Len(bytes) = ScalarReprLen /\ FromLE(bytes) < Q THEN Some(FromLE(bytes)) ELSE None

RECURSIVE Concat(_)
Concat(chunks) == IF chunks = <<>> THEN <<>> ELSE Head(chunks) \o Concat(Tail(chunks))

serialize_elements(elems) == Concat([k \in 1 .. Len(elems) |-> serialize_element(elems[k])])

serialize_scalars(scalars) == Concat([k \in 1 .. Len(scalars) |-> serialize_scalar(scalars[k])])

Chunk(data, k, size) == SubSeq(data, (k - 1) * size + 1, k * size)

\* Option<Vec<G>>: exactly `count` canonical encodings, nothing more
deserialize_elements(data, count) ==
    IF Len(data) # count * ElemReprLen
    THEN None
    ELSE IF \E k \in 1 .. count : deserialize_element(Chunk(data, k, ElemReprLen)) = None
         THEN None
         ELSE Some([k \in 1 .. count |-> deserialize_element(Chunk(data, k, ElemReprLen))[1]])

deserialize_scalars(data, count) ==
    IF Len(data) # count * ScalarReprLen
    THEN None
    ELSE IF \E k \in 1 .. count : deserialize_scalar(Chunk(data, k, ScalarReprLen)) = None
         THEN None
         ELSE Some([k \in 1 .. count |-> deserialize_scalar(Chunk(data, k, ScalarReprLen))[1]])

\* Option::ok_or
ok_or(opt, e) == IF opt = None THEN Err(e) ELSE Ok(opt[1])

-----------------------------------------------------------------------------
(* Codec: a duplex sponge. Its state is the byte string absorbed so far;   *)
(* the challenge is a function of that string.                             *)

Codec_new(iv_) == iv_

prover_message(codec, data) == codec \o data

RECURSIVE Sponge(_, _)
Sponge(h, bytes) ==
    IF bytes = <<>> THEN h ELSE Sponge((2 * h + Head(bytes) + 1) % Q, Tail(bytes))

verifier_challenge(codec) == Sponge(0, codec)

-----------------------------------------------------------------------------
(* SchnorrProof(LinearRelation)                                            *)

witness_length(rel) == rel.num_scalars

commitment_length(rel) == num_constraints(rel)

\* rng: the stream of scalars the RNG yields, in the order drawn
DrawScalars(rng, n) == SubSeq(rng, 1, n)

\* prover_commit without the refusal of an all-identity image
prover_commit_no_trivial_check(rel, witness, rng) ==
    IF Len(witness) # witness_length(rel)
    THEN Err("InvalidInstanceWitnessPair")
    ELSE Try(LinearRelation_image(rel), LAMBDA img :
         Try(LinearMap_evaluate(rel, DrawScalars(rng, witness_length(rel))),
             LAMBDA commitment :
             Ok([commitment |-> commitment,
                 prover_state |-> [nonces |-> DrawScalars(rng, witness_length(rel)),
                                   witness |-> witness]])))

SchnorrProof_prover_commit(rel, witness, rng) ==
    IF Len(witness) # witness_length(rel)
    THEN Err("InvalidInstanceWitnessPair")
    ELSE Try(LinearRelation_image(rel), LAMBDA img :
         IF \A k \in 1 .. Len(img) : img[k] = G_identity
         THEN Err("InvalidInstanceWitnessPair")
         ELSE Try(LinearMap_evaluate(rel, DrawScalars(rng, witness_length(rel))),
                  LAMBDA commitment :
                  Ok([commitment |-> commitment,
                      prover_state |-> [nonces |-> DrawScalars(rng, witness_length(rel)),
                                        witness |-> witness]])))

\* prover_response that adds the witness without multiplying by the challenge
prover_response_unscaled(rel, prover_state, challenge) ==
    IF Len(prover_state.nonces) # witness_length(rel)
          \/ Len(prover_state.witness) # witness_length(rel)
    THEN Err("InvalidInstanceWitnessPair")
    ELSE Ok([k \in 1 .. Len(prover_state.nonces) |->
                FAdd(prover_state.nonces[k], prover_state.witness[k])])

SchnorrProof_prover_response(rel, prover_state, challenge) ==
    IF Len(prover_state.nonces) # witness_length(rel)
          \/ Len(prover_state.witness) # witness_length(rel)
    THEN Err("InvalidInstanceWitnessPair")
    ELSE Ok([k \in 1 .. Len(prover_state.nonces) |->
                FAdd(prover_state.nonces[k], FMul(prover_state.witness[k], challenge))])

\* for (i, g) in commitment.iter().enumerate() { rhs.push(get(image[i])? * challenge + g) }
RECURSIVE VerifierRhs(_, _, _, _)
VerifierRhs(rel, commitment, challenge, i) ==
    IF i >= Len(commitment)
    THEN Ok(<<>>)
    ELSE IF i >= Len(rel.image)
         THEN Panic
         ELSE Try(GroupMap_get(rel.group_elements, rel.image[i + 1]), LAMBDA x :
              Try(VerifierRhs(rel, commitment, challenge, i + 1), LAMBDA rest :
              Ok(<<FAdd(GMul(x, challenge), commitment[i + 1])>> \o rest)))

\* verifier that evaluates both sides and does not compare them
verifier_no_comparison(rel, commitment, challenge, response) ==
    IF Len(commitment) # commitment_length(rel) \/ Len(response) # witness_length(rel)
    THEN Err("InvalidInstanceWitnessPair")
    ELSE Try(LinearMap_evaluate(rel, response), LAMBDA lhs :
         Try(VerifierRhs(rel, commitment, challenge, 0), LAMBDA rhs :
         Ok(<<>>)))

\* verifier without the length checks
verifier_no_length_check(rel, commitment, challenge, response) ==
    Try(LinearMap_evaluate(rel, response), LAMBDA lhs :
    Try(VerifierRhs(rel, commitment, challenge, 0), LAMBDA rhs :
    IF lhs = rhs THEN Ok(<<>>) ELSE Err("VerificationFailure")))

SchnorrProof_verifier(rel, commitment, challenge, response) ==
    IF Len(commitment) # commitment_length(rel) \/ Len(response) # witness_length(rel)
    THEN Err("InvalidInstanceWitnessPair")
    ELSE Try(LinearMap_evaluate(rel, response), LAMBDA lhs :
         Try(VerifierRhs(rel, commitment, challenge, 0), LAMBDA rhs :
         IF lhs = rhs THEN Ok(<<>>) ELSE Err("VerificationFailure")))

serialize_commitment(commitment) == serialize_elements(commitment)

serialize_challenge(challenge) == serialize_scalars(<<challenge>>)

serialize_response(response) == serialize_scalars(response)

deserialize_commitment(rel, data) ==
    ok_or(deserialize_elements(data, commitment_length(rel)), "VerificationFailure")

deserialize_challenge(data) ==
    Try(ok_or(deserialize_scalars(data, 1), "VerificationFailure"),
        LAMBDA scalars : Ok(scalars[1]))

deserialize_response(rel, data) ==
    ok_or(deserialize_scalars(data, witness_length(rel)), "VerificationFailure")

SchnorrProof_instance_label(rel) == LinearRelation_label(rel)

\* b"SchnorrProof"
SchnorrProof_protocol_identifier ==
    <<83, 99, 104, 110, 111, 114, 114, 80, 114, 111, 111, 102>>

\* simulate_commitment that leaves out the image scaled by the challenge
simulate_commitment_without_image(rel, challenge, response) ==
    IF Len(response) # witness_length(rel)
    THEN Err("InvalidInstanceWitnessPair")
    ELSE Try(LinearMap_evaluate(rel, response), LAMBDA response_image :
         Try(LinearRelation_image(rel), LAMBDA img : Ok(response_image)))

SchnorrProof_simulate_commitment(rel, challenge, response) ==
    IF Len(response) # witness_length(rel)
    THEN Err("InvalidInstanceWitnessPair")
    ELSE Try(LinearMap_evaluate(rel, response), LAMBDA response_image :
         Try(LinearRelation_image(rel), LAMBDA img :
         Ok([k \in 1 .. Len(img) |->
                FSub(response_image[k], GMul(img[k], challenge))])))

\* simulate_response with one draw repeated in every entry
simulate_response_one_draw(rel, rng) ==
    [k \in 1 .. witness_length(rel) |-> rng[1]]

\* (0..self.witness_length()).map(|_| G::Scalar::random(&mut rng)).collect()
SchnorrProof_simulate_response(rel, rng) == DrawScalars(rng, witness_length(rel))

\* rng: the challenge is drawn first, the response entries after it
SchnorrProof_simulate_transcript(rel, rng) ==
    Try(SchnorrProof_simulate_commitment(rel, Head(rng),
            SchnorrProof_simulate_response(rel, Tail(rng))),
        LAMBDA commitment :
        Ok([commitment |-> commitment, challenge |-> Head(rng),
            response |-> SchnorrProof_simulate_response(rel, Tail(rng))]))

\* The wire formats of the SigmaProtocol and CompactProtocol traits
commit_bytes_len(rel) == num_constraints(rel) * ElemReprLen

serialize_batchable(rel, commitment, challenge, response) ==
    Ok(serialize_commitment(commitment) \o serialize_response(response))

deserialize_batchable(rel, data) ==
    IF Len(data) # commit_bytes_len(rel) + witness_length(rel) * ScalarReprLen
    THEN Err("VerificationFailure")
    ELSE Try(deserialize_commitment(rel, SubSeq(data, 1, commit_bytes_len(rel))),
             LAMBDA commitment :
         Try(deserialize_response(rel, SubSeq(data, commit_bytes_len(rel) + 1, Len(data))),
             LAMBDA response :
         Ok([commitment |-> commitment, response |-> response])))

serialize_compact(rel, commitment, challenge, response) ==
    Ok(serialize_challenge(challenge) \o serialize_response(response))

deserialize_compact(rel, data) ==
    IF Len(data) # (witness_length(rel) + 1) * ScalarReprLen
    THEN Err("VerificationFailure")
    ELSE Try(deserialize_challenge(SubSeq(data, 1, ScalarReprLen)), LAMBDA challenge :
         Try(deserialize_response(rel, SubSeq(data, ScalarReprLen + 1, Len(data))),
             LAMBDA response :
         Ok([challenge |-> challenge, response |-> response])))

\* SchnorrProtocolCustom, the protocol of the test vectors, has wire
\* formats of its own. iter().take(n): the first n entries, or all of them
Take(seq, n) == SubSeq(seq, 1, IF Len(seq) < n THEN Len(seq) ELSE n)

SchnorrProtocolCustom_serialize_batchable(rel, commitment, challenge, response) ==
    Ok(serialize_elements(Take(commitment, Len(rel.constraints)))
        \o serialize_scalars(Take(response, rel.num_scalars)))

\* deserialize_element(slice)? and deserialize_scalar(&slice)?: the error of
\* a non-canonical encoding is taken to be VerificationFailure
SchnorrProtocolCustom_deserialize_batchable(rel, data) ==
    IF Len(data) # rel.num_scalars * ScalarReprLen + Len(rel.constraints) * ElemReprLen
    THEN Err("ProofSizeMismatch")
    ELSE Try(ok_or(deserialize_elements(
                    SubSeq(data, 1, Len(rel.constraints) * ElemReprLen),
                    Len(rel.constraints)), "VerificationFailure"),
             LAMBDA commitments :
         Try(ok_or(deserialize_scalars(
                    SubSeq(data, Len(rel.constraints) * ElemReprLen + 1, Len(data)),
                    rel.num_scalars), "VerificationFailure"),
             LAMBDA responses :
         Ok([commitment |-> commitments, response |-> responses])))

get_commitment(rel, challenge, response) ==
    SchnorrProof_simulate_commitment(rel, challenge, response)

-----------------------------------------------------------------------------
(* NISigmaProtocol { hash_state, sigmap }                                  *)

\* new that starts the codec from the empty string whatever the IV
new_ignoring_iv(iv_, instance) ==
    [hash_state |-> Codec_new(<<>>), sigmap |-> instance]

NISigmaProtocol_new(iv_, instance) ==
    [hash_state |-> Codec_new(iv_), sigmap |-> instance]

\* for commit in &commitment { data.extend_from_slice(commit.to_bytes().as_ref()) }
CommitmentData(commitment) ==
    Concat([k \in 1 .. Len(commitment) |-> serialize_element(commitment[k])])

Transcript(commitment, challenge, response) ==
    [commitment |-> commitment, challenge |-> challenge, response |-> response]

\* codec.prover_message(&data).verifier_challenge() on a clone of hash_state
Challenge(nizk, commitment) ==
    verifier_challenge(prover_message(nizk.hash_state, CommitmentData(commitment)))

NISigmaProtocol_prove(nizk, witness, rng) ==
    Try(SchnorrProof_prover_commit(nizk.sigmap, witness, rng), LAMBDA committed :
    Try(SchnorrProof_prover_response(nizk.sigmap, committed.prover_state,
                                     Challenge(nizk, committed.commitment)),
        LAMBDA response :
    Try(SchnorrProof_verifier(nizk.sigmap, committed.commitment,
                              Challenge(nizk, committed.commitment), response),
        LAMBDA checked :
    Ok(Transcript(committed.commitment, Challenge(nizk, committed.commitment), response)))))

\* verify that runs the verifier without comparing the challenge
verify_no_challenge_check(nizk, commitment, challenge, response) ==
    SchnorrProof_verifier(nizk.sigmap, commitment, challenge, response)

NISigmaProtocol_verify(nizk, commitment, challenge, response) ==
    IF challenge = Challenge(nizk, commitment)
    THEN SchnorrProof_verifier(nizk.sigmap, commitment, challenge, response)
    ELSE Err("VerificationFailure")

\* Result::unwrap
unwrap(r) == IF IsOk(r) THEN r ELSE Panic

NISigmaProtocol_prove_batchable(nizk, witness, rng) ==
    Try(NISigmaProtocol_prove(nizk, witness, rng), LAMBDA t :
    unwrap(serialize_batchable(nizk.sigmap, t.commitment, t.challenge, t.response)))

NISigmaProtocol_verify_batchable(nizk, bytes) ==
    Try(unwrap(deserialize_batchable(nizk.sigmap, bytes)), LAMBDA d :
    SchnorrProof_verifier(nizk.sigmap, d.commitment, Challenge(nizk, d.commitment),
                          d.response))

NISigmaProtocol_prove_compact(nizk, witness, rng) ==
    Try(NISigmaProtocol_prove(nizk, witness, rng), LAMBDA t :
    unwrap(serialize_compact(nizk.sigmap, t.commitment, t.challenge, t.response)))

NISigmaProtocol_verify_compact(nizk, bytes) ==
    Try(unwrap(deserialize_compact(nizk.sigmap, bytes)), LAMBDA d :
    Try(get_commitment(nizk.sigmap, d.challenge, d.response), LAMBDA commitment :
    NISigmaProtocol_verify(nizk, commitment, d.challenge, d.response)))

-----------------------------------------------------------------------------
(* The same calls statement by statement: what each statement reads and    *)
(* writes of the wrapper (hash_state, sigmap) and of the call's locals.    *)

\* let mut codec = self.hash_state.clone()
clone_hash_state(nizk) == nizk.hash_state

\* prove taking the wrapper's codec itself in place of a clone
prove_absorb_into_self(shared, codec, commitment) ==
    [hash_state |-> prover_message(shared, CommitmentData(commitment)),
     codec |-> prover_message(shared, CommitmentData(commitment))]

\* prove that asks for the challenge without absorbing the commitment
prove_absorb_nothing(shared, codec, commitment) ==
    [hash_state |-> shared, codec |-> codec]

\* prove: codec.prover_message(&data), codec being the clone
prove_absorb(shared, codec, commitment) ==
    [hash_state |-> shared,
     codec |-> prover_message(codec, CommitmentData(commitment))]

\* verify taking the wrapper's codec itself in place of a clone
verify_absorb_into_self(shared, codec, commitment) ==
    [hash_state |-> prover_message(shared, CommitmentData(commitment)),
     codec |-> prover_message(shared, CommitmentData(commitment))]

\* verify: codec.prover_message(&data), codec being the clone
verify_absorb(shared, codec, commitment) ==
    [hash_state |-> shared,
     codec |-> prover_message(codec, CommitmentData(commitment))]

\* verify_batchable: codec.prover_message(&data), codec being the clone
verify_batchable_absorb(shared, codec, commitment) ==
    [hash_state |-> shared,
     codec |-> prover_message(codec, CommitmentData(commitment))]

\* verify_batchable: deserialize_batchable(proof).unwrap()
verify_batchable_parse(rel, bytes) ==
    Try(unwrap(deserialize_batchable(rel, bytes)), LAMBDA d :
    Ok([commitment |-> d.commitment, challenge |-> 0, response |-> d.response]))

\* verify_compact: deserialize_compact(proof).unwrap(), get_commitment(..)?
verify_compact_parse(rel, bytes) ==
    Try(unwrap(deserialize_compact(rel, bytes)), LAMBDA d :
    Try(get_commitment(rel, d.challenge, d.response), LAMBDA commitment :
    Ok([commitment |-> commitment, challenge |-> d.challenge,
        response |-> d.response])))

\* prove: self.sigmap.prover_response(prover_state, &challenge)
prove_respond(rel, local) ==
    SchnorrProof_prover_response(rel, local.prover_state, local.expected)

\* prove, from the response on: verifier(..)?, Ok((commitment, challenge, response))
prove_finish(rel, local) ==
    Try(SchnorrProof_verifier(rel, local.commitment, local.expected, local.response),
        LAMBDA checked :
    Ok(Transcript(local.commitment, local.expected, local.response)))

\* verify, from the recomputed challenge on
verify_finish(rel, local) ==
    IF local.challenge = local.expected
    THEN SchnorrProof_verifier(rel, local.commitment, local.challenge, local.response)
    ELSE Err("VerificationFailure")

\* verify_batchable, from the recomputed challenge on
verify_batchable_finish(rel, local) ==
    SchnorrProof_verifier(rel, local.commitment, local.expected, local.response)

ProveOps == {"prove", "prove_batchable", "prove_compact"}
VerifyOps == {"verify", "verify_batchable", "verify_compact"}

\* What the call returns once it has its challenge
FinishResult(rel, local) ==
    CASE local.op = "prove" -> prove_finish(rel, local)
      [] local.op = "prove_batchable" ->
            Try(prove_finish(rel, local), LAMBDA t :
            unwrap(serialize_batchable(rel, t.commitment, t.challenge, t.response)))
      [] local.op = "prove_compact" ->
            Try(prove_finish(rel, local), LAMBDA t :
            unwrap(serialize_compact(rel, t.commitment, t.challenge, t.response)))
      [] local.op = "verify_batchable" -> verify_batchable_finish(rel, local)
      [] OTHER -> verify_finish(rel, local)

\* The absorption of the commitment by the call's codec
Absorbed(shared, local) ==
    CASE local.op \in ProveOps ->
            prove_absorb(shared, local.codec, local.commitment)
      [] local.op = "verify_batchable" ->
            verify_batchable_absorb(shared, local.codec, local.commitment)
      [] OTHER -> verify_absorb(shared, local.codec, local.commitment)

-----------------------------------------------------------------------------
(* The statements: the relations the test suite builds (discrete           *)
(* logarithm, DLEQ, Pedersen commitment), each built by the calls the      *)
(* tests make. A statement may allocate scalars that no equation uses, and *)
(* any element but the generator may be left unassigned.                   *)

MaxIV == 1

Equation(lhs, rhs) == [lhs |-> lhs, rhs |-> rhs]

Shape(n, m, eqs) == [n |-> n, m |-> m, eqs |-> eqs]

\* X = x * G
discrete_logarithm == Shape(1, 2, <<Equation(1, <<Term(0, 0)>>)>>)

\* X = x * G, with a second scalar allocated that no equation uses
discrete_logarithm_unused == Shape(2, 2, <<Equation(1, <<Term(0, 0)>>)>>)

\* X = x * G, Y = x * H
dleq == Shape(1, 4, <<Equation(2, <<Term(0, 0)>>), Equation(3, <<Term(0, 1)>>)>>)

\* C = x * G + r * H
pedersen_commitment == Shape(2, 3, <<Equation(2, <<Term(0, 0), Term(1, 1)>>)>>)

\* C = r * H + x * G
pedersen_commitment_swapped == Shape(2, 3, <<Equation(2, <<Term(1, 1), Term(0, 0)>>)>>)

\* X = the sum of no terms
empty_sum == Shape(1, 2, <<Equation(1, <<>>)>>)

Shapes ==
    {discrete_logarithm, discrete_logarithm_unused, dleq,
     pedersen_commitment, pedersen_commitment_swapped, empty_sum}

RECURSIVE AppendEquations(_, _)
AppendEquations(rel, eqs) ==
    IF eqs = <<>>
    THEN rel
    ELSE AppendEquations(append_equation(rel, Head(eqs).lhs, Head(eqs).rhs), Tail(eqs))

\* The <<var, element>> pairs of the assigned slots of elems, from index i on
RECURSIVE Assignments(_, _)
Assignments(elems, i) ==
    IF i >= Len(elems)
    THEN <<>>
    ELSE (IF elems[i + 1] = None THEN <<>> ELSE <<(<<i, elems[i + 1][1]>>)>>)
            \o Assignments(elems, i + 1)

\* allocate_scalars, allocate_elements, append_equation..., set_elements
Build(shape, elems) ==
    set_elements(
        AppendEquations(
            allocate_elements(allocate_scalars(LinearRelation_new, shape.n), shape.m),
            shape.eqs),
        Assignments(elems, 0)).val

OptionG == {None} \cup {Some(g) : g \in Elements}

ElementChoices(m) ==
    {e \in [1 .. m -> OptionG] : e[1] = Some(G_generator)}

Statements ==
    UNION {{Build(shape, e) : e \in ElementChoices(shape.m)} : shape \in Shapes}

Reverse(seq) == [k \in 1 .. Len(seq) |-> seq[Len(seq) + 1 - k]]

\* The same statement with the terms of every equation written in reverse order
SwapTerms(rel) ==
    [rel EXCEPT !.constraints = [j \in 1 .. Len(@) |-> Reverse(@[j])]]

IVs == {<<b>> : b \in 0 .. MaxIV}

\* Vectors of the right length n, and a few of the lengths next to it
WrongLength(n) ==
    {[k \in 1 .. m |-> s] : m \in {n + 1} \cup ({n - 1} \cap Nat), s \in {1}}

Vectors(n) == SeqOf(Scalars, n) \cup WrongLength(n)

\* A transcript that differs from t in exactly one commitment element, in
\* the challenge, or in exactly one response entry
SingleChanges(t) ==
    {[t EXCEPT !.commitment[j] = g] :
        j \in 1 .. Len(t.commitment), g \in Elements} \cup
    {[t EXCEPT !.challenge = c] : c \in Scalars} \cup
    {[t EXCEPT !.response[i] = s] :
        i \in 1 .. Len(t.response), s \in Scalars}

\* Byte strings next to b: one byte shorter, one byte longer, one byte replaced
TamperBytes == 0 .. Q

ByteChanges(b) ==
    (IF b = <<>> THEN {} ELSE {SubSeq(b, 1, Len(b) - 1)}) \cup
    {b \o <<x>> : x \in TamperBytes} \cup
    {[b EXCEPT ![k] = x] : k \in 1 .. Len(b), x \in TamperBytes}

-----------------------------------------------------------------------------
(* The state machine                                                       *)

Nizk == [hash_state |-> hash_state, sigmap |-> sigmap]

\* The callers of a shared wrapper, and the calls one caller makes in a row
MaxProcs == 2
MaxCalls == 3

Procs == 1 .. MaxProcs

NoArg ==
    [witness |-> <<>>, rng |-> <<>>, commitment |-> <<>>, challenge |-> 0,
     response |-> <<>>, bytes |-> <<>>]

\* The locals of a call: where it is, its arguments, its clone of the codec,
\* what it has computed, and its result once it has returned
Idle ==
    [pc |-> "idle", op |-> "none", arg |-> NoArg, codec |-> <<>>,
     commitment |-> <<>>, prover_state |-> [nonces |-> <<>>, witness |-> <<>>],
     challenge |-> 0, expected |-> 0, response |-> <<>>, res |-> Ok(<<>>),
     calls |-> 0, overlapped |-> FALSE]

NoCalls == [p \in Procs |-> Idle]

Call(op, arg, res) == [op |-> op, arg |-> arg, res |-> res]

NoTranscript == Transcript(<<>>, 0, <<>>)

NoProof ==
    [kind |-> "none", t |-> NoTranscript, bytes |-> <<>>, iv |-> <<>>,
     sigmap |-> LinearRelation_new, witness |-> <<>>, rng |-> <<>>]

Issued(kind, t, bytes, witness, rng) ==
    [kind |-> kind, t |-> t, bytes |-> bytes, iv |-> iv,
     sigmap |-> sigmap, witness |-> witness, rng |-> rng]

\* The proof in hand was issued by the wrapper as it is now
Own == proof.kind # "none" /\ proof.iv = iv /\ proof.sigmap = sigmap

\* The wrapper has just been constructed and the caller holds no proof.
\* No call changes sigmap or hash_state, so the calls are explored from
\* here, and the calls that take a proof from the state that issued it.
Fresh == last.op = "new" /\ proof.kind = "none"

\* The call before issued the proof in hand, or built the wrapper it is
\* presented to
Presented == last.op \in {"new", "prove", "prove_batchable", "prove_compact"}

Init ==
    \E iv0 \in IVs, instance \in Statements :
        /\ sigmap = NISigmaProtocol_new(iv0, instance).sigmap
        /\ hash_state = NISigmaProtocol_new(iv0, instance).hash_state
        /\ iv = iv0
        /\ proof = NoProof
        /\ last = Call("new", [iv |-> iv0], Ok(<<>>))
        /\ running = NoCalls

\* A second wrapper, over the same statement or the one with swapped terms,
\* to which the proof in hand is presented
New(iv2, instance) ==
    /\ Own
    /\ last.op \in {"prove", "prove_batchable", "prove_compact"}
    /\ sigmap' = NISigmaProtocol_new(iv2, instance).sigmap
    /\ hash_state' = NISigmaProtocol_new(iv2, instance).hash_state
    /\ iv' = iv2
    /\ proof' = proof
    /\ UNCHANGED running
    /\ last' = Call("new", [iv |-> iv2], Ok(<<>>))

Prove(witness, rng) ==
    LET res == NISigmaProtocol_prove(Nizk, witness, rng)
    IN  /\ Fresh
        /\ last' = Call("prove", [witness |-> witness, rng |-> rng], res)
        /\ proof' = IF IsOk(res)
                    THEN Issued("transcript", res.val, <<>>, witness, rng)
                    ELSE NoProof
        /\ UNCHANGED <<sigmap, hash_state, iv, running>>

ProveBatchable(witness, rng) ==
    LET res == NISigmaProtocol_prove_batchable(Nizk, witness, rng)
    IN  /\ Fresh
        /\ last' = Call("prove_batchable", [witness |-> witness, rng |-> rng], res)
        /\ proof' = IF IsOk(res)
                    THEN Issued("batchable", NISigmaProtocol_prove(Nizk, witness, rng).val,
                                res.val, witness, rng)
                    ELSE NoProof
        /\ UNCHANGED <<sigmap, hash_state, iv, running>>

ProveCompact(witness, rng) ==
    LET res == NISigmaProtocol_prove_compact(Nizk, witness, rng)
    IN  /\ Fresh
        /\ last' = Call("prove_compact", [witness |-> witness, rng |-> rng], res)
        /\ proof' = IF IsOk(res)
                    THEN Issued("compact", NISigmaProtocol_prove(Nizk, witness, rng).val,
                                res.val, witness, rng)
                    ELSE NoProof
        /\ UNCHANGED <<sigmap, hash_state, iv, running>>

\* verify of the transcript in hand, or of one next to it
VerifyIssued(t) ==
    /\ proof.kind = "transcript"
    /\ Presented
    /\ last' = Call("verify", t,
                    NISigmaProtocol_verify(Nizk, t.commitment, t.challenge, t.response))
    /\ UNCHANGED <<sigmap, hash_state, iv, proof, running>>

\* verify of any transcript
Verify(commitment, challenge, response) ==
    /\ Fresh
    /\ last' = Call("verify", Transcript(commitment, challenge, response),
                    NISigmaProtocol_verify(Nizk, commitment, challenge, response))
    /\ UNCHANGED <<sigmap, hash_state, iv, proof, running>>

VerifyBatchable(bytes) ==
    /\ proof.kind = "batchable"
    /\ Presented
    /\ last' = Call("verify_batchable", [bytes |-> bytes],
                    NISigmaProtocol_verify_batchable(Nizk, bytes))
    /\ UNCHANGED <<sigmap, hash_state, iv, proof, running>>

VerifyCompact(bytes) ==
    /\ proof.kind = "compact"
    /\ Presented
    /\ last' = Call("verify_compact", [bytes |-> bytes],
                    NISigmaProtocol_verify_compact(Nizk, bytes))
    /\ UNCHANGED <<sigmap, hash_state, iv, proof, running>>

\* The calls on the Sigma protocol and its relation
ProverCommit(witness, rng) ==
    /\ Fresh
    /\ last' = Call("prover_commit", [witness |-> witness, rng |-> rng],
                    SchnorrProof_prover_commit(sigmap, witness, rng))
    /\ UNCHANGED <<sigmap, hash_state, iv, proof, running>>

ProverResponse(nonces, witness, challenge) ==
    /\ Fresh
    /\ last' = Call("prover_response",
                    [nonces |-> nonces, witness |-> witness, challenge |-> challenge],
                    SchnorrProof_prover_response(sigmap,
                        [nonces |-> nonces, witness |-> witness], challenge))
    /\ UNCHANGED <<sigmap, hash_state, iv, proof, running>>

Verifier(commitment, challenge, response) ==
    /\ Fresh
    /\ last' = Call("verifier", Transcript(commitment, challenge, response),
                    SchnorrProof_verifier(sigmap, commitment, challenge, response))
    /\ UNCHANGED <<sigmap, hash_state, iv, proof, running>>

Get(var) ==
    /\ Fresh
    /\ last' = Call("get", [var |-> var], GroupMap_get(sigmap.group_elements, var))
    /\ UNCHANGED <<sigmap, hash_state, iv, proof, running>>

Evaluate(scalars) ==
    /\ Fresh
    /\ last' = Call("evaluate", [scalars |-> scalars], LinearMap_evaluate(sigmap, scalars))
    /\ UNCHANGED <<sigmap, hash_state, iv, proof, running>>

SimulateTranscript(rng) ==
    /\ Fresh
    /\ last' = Call("simulate_transcript", [rng |-> rng],
                    SchnorrProof_simulate_transcript(sigmap, rng))
    /\ UNCHANGED <<sigmap, hash_state, iv, proof, running>>

Image ==
    /\ Fresh
    /\ last' = Call("image", <<>>, LinearRelation_image(sigmap))
    /\ UNCHANGED <<sigmap, hash_state, iv, proof, running>>

Next ==
    \/ \E iv2 \in IVs, instance \in {sigmap, SwapTerms(sigmap)} : New(iv2, instance)
    \/ \E witness, rng \in SeqOf(Scalars, witness_length(sigmap)) : Prove(witness, rng)
    \/ \E witness, rng \in SeqOf(Scalars, witness_length(sigmap)) :
            ProveBatchable(witness, rng)
    \/ \E witness, rng \in SeqOf(Scalars, witness_length(sigmap)) :
            ProveCompact(witness, rng)
    \/ \E t \in (IF Own THEN SingleChanges(proof.t) ELSE {proof.t}) : VerifyIssued(t)
    \/ \E commitment \in Vectors(commitment_length(sigmap)), challenge \in Scalars,
            response \in Vectors(witness_length(sigmap)) :
            Verify(commitment, challenge, response)
    \/ \E bytes \in (IF Own THEN {proof.bytes} \cup ByteChanges(proof.bytes)
                            ELSE {proof.bytes}) : VerifyBatchable(bytes)
    \/ \E bytes \in (IF Own THEN {proof.bytes} \cup ByteChanges(proof.bytes)
                            ELSE {proof.bytes}) : VerifyCompact(bytes)
    \/ \E witness \in Vectors(witness_length(sigmap)),
            rng \in SeqOf(Scalars, witness_length(sigmap)) : ProverCommit(witness, rng)

\* The Fiat-Shamir wrapper: construction, proving and verifying
Spec == Init /\ [][Next]_vars

\* The calls below read sigmap alone, so one IV is enough
InitSigma == Init /\ iv = <<0>>

NextSigma ==
    \/ \E witness \in Vectors(witness_length(sigmap)),
            rng \in SeqOf(Scalars, witness_length(sigmap)) : ProverCommit(witness, rng)
    \/ \E nonces, witness \in Vectors(witness_length(sigmap)), challenge \in Scalars :
            ProverResponse(nonces, witness, challenge)
    \/ \E commitment \in Vectors(commitment_length(sigmap)), challenge \in Scalars,
            response \in Vectors(witness_length(sigmap)) :
            Verifier(commitment, challenge, response)
    \/ \E var \in 0 .. (sigmap.num_elements - 1) : Get(var)
    \/ \E scalars \in SeqOf(Scalars, witness_length(sigmap)) : Evaluate(scalars)
    \/ \E rng \in SeqOf(Scalars, witness_length(sigmap) + 1) : SimulateTranscript(rng)
    \/ Image

\* The Sigma protocol and its relation, called directly
SpecSigma == InitSigma /\ [][NextSigma]_vars

\* The wire format of a transcript, of SchnorrProof and of SchnorrProtocolCustom
Protocols == {"SchnorrProof", "SchnorrProtocolCustom"}

SerializeBatchable(protocol, commitment, challenge, response) ==
    LET res == IF protocol = "SchnorrProof"
               THEN serialize_batchable(sigmap, commitment, challenge, response)
               ELSE SchnorrProtocolCustom_serialize_batchable(sigmap, commitment,
                        challenge, response)
    IN  /\ Fresh
        /\ last' = Call("serialize_batchable", [protocol |-> protocol], res)
        /\ proof' = [Issued("serialized", Transcript(commitment, challenge, response),
                            res.val, <<>>, <<>>) EXCEPT !.kind = protocol]
        /\ UNCHANGED <<sigmap, hash_state, iv, running>>

DeserializeBatchable(bytes) ==
    /\ proof.kind \in Protocols
    /\ last.op = "serialize_batchable"
    /\ last' = Call("deserialize_batchable", [protocol |-> proof.kind, bytes |-> bytes],
                    IF proof.kind = "SchnorrProof"
                    THEN deserialize_batchable(sigmap, bytes)
                    ELSE SchnorrProtocolCustom_deserialize_batchable(sigmap, bytes))
    /\ UNCHANGED <<sigmap, hash_state, iv, proof, running>>

NextWire ==
    \/ \E protocol \in Protocols, commitment \in SeqOf(Elements, commitment_length(sigmap)),
            response \in SeqOf(Scalars, witness_length(sigmap)) :
            SerializeBatchable(protocol, commitment, 0, response)
    \/ \E bytes \in {proof.bytes} \cup ByteChanges(proof.bytes) : DeserializeBatchable(bytes)

SpecWire == InitSigma /\ [][NextWire]_vars

-----------------------------------------------------------------------------
(* Building a relation: sigmap is the relation under construction. The     *)
(* handles ScalarVar and GroupVar are plain indices; those in hand are this *)
(* relation's own and those of another relation that allocated up to the   *)
(* bounds, which the type system does not tell apart.                      *)

MaxScalars == 1
MaxElements == 2
MaxEquations == 2
MaxTerms == 2

ScalarVars == 0 .. (MaxScalars - 1)
GroupVars == 0 .. (MaxElements - 1)

\* impl Into<LinearCombination>: the sums of up to MaxTerms terms
LinearCombinations ==
    UNION {SeqOf({Term(s, e) : s \in ScalarVars, e \in GroupVars}, n) : n \in 1 .. MaxTerms}

\* The values given to set_element and set_elements
Values == Elements \ {G_identity}

\* A panic ends the program
Alive == last.res # Panic

Built(op, arg, rel, res) ==
    /\ Alive
    /\ sigmap' = rel
    /\ last' = Call(op, arg, res)
    /\ UNCHANGED <<hash_state, iv, proof, running>>

AllocateScalar ==
    /\ sigmap.num_scalars < MaxScalars
    /\ Built("allocate_scalar", <<>>, allocate_scalar(sigmap), Ok(sigmap.num_scalars))

AllocateElement ==
    /\ sigmap.num_elements < MaxElements
    /\ Built("allocate_element", <<>>, allocate_element(sigmap), Ok(sigmap.num_elements))

AppendEquation(lhs, rhs) ==
    /\ Len(sigmap.constraints) < MaxEquations
    /\ Built("append_equation", [lhs |-> lhs, rhs |-> rhs],
             append_equation(sigmap, lhs, rhs), Ok(<<>>))

AllocateEq(rhs) ==
    /\ Len(sigmap.constraints) < MaxEquations
    /\ sigmap.num_elements < MaxElements
    /\ Built("allocate_eq", [rhs |-> rhs], allocate_eq(sigmap, rhs).rel,
             Ok(allocate_eq(sigmap, rhs).var))

SetElement(var, element) ==
    Built("set_element", [var |-> var, element |-> element],
          IF IsOk(set_element(sigmap, var, element))
          THEN set_element(sigmap, var, element).val ELSE sigmap,
          IF IsOk(set_element(sigmap, var, element)) THEN Ok(<<>>) ELSE Panic)

SetElements(assignments) ==
    Built("set_elements", [assignments |-> assignments],
          IF IsOk(set_elements(sigmap, assignments))
          THEN set_elements(sigmap, assignments).val ELSE sigmap,
          IF IsOk(set_elements(sigmap, assignments)) THEN Ok(<<>>) ELSE Panic)

ComputeImage(scalars) ==
    Built("compute_image", [scalars |-> scalars],
          compute_image(sigmap, scalars).rel, compute_image(sigmap, scalars).res)

InitBuild ==
    /\ sigmap = LinearRelation_new
    /\ hash_state = Codec_new(<<0>>)
    /\ iv = <<0>>
    /\ proof = NoProof
    /\ last = Call("LinearRelation::new", <<>>, Ok(<<>>))
    /\ running = NoCalls

NextBuild ==
    \/ AllocateScalar
    \/ AllocateElement
    \/ \E lhs \in GroupVars, rhs \in LinearCombinations : AppendEquation(lhs, rhs)
    \/ \E rhs \in LinearCombinations : AllocateEq(rhs)
    \/ \E var \in GroupVars, element \in Values : SetElement(var, element)
    \/ \E assignments \in SeqOf(GroupVars \X Values, 2) : SetElements(assignments)
    \/ \E scalars \in SeqOf(Scalars, sigmap.num_scalars) : ComputeImage(scalars)

SpecBuild == InitBuild /\ [][NextBuild]_vars

\* The allocating calls alone, with larger counters. The argument of a call
\* record carries the handles handed out so far, in the order of the calls.
MaxAllocated == 4
MaxBulk == 3

Handed(scalars, elements) ==
    [scalars |-> last.arg.scalars \o scalars, elements |-> last.arg.elements \o elements]

AllocScalar ==
    /\ sigmap.num_scalars < MaxAllocated
    /\ Built("allocate_scalar", Handed(<<allocate_scalar_var(sigmap)>>, <<>>),
             allocate_scalar(sigmap), Ok(allocate_scalar_var(sigmap)))

AllocElement ==
    /\ sigmap.num_elements < MaxAllocated
    /\ Built("allocate_element", Handed(<<>>, <<allocate_element_var(sigmap)>>),
             allocate_element(sigmap), Ok(allocate_element_var(sigmap)))

AllocScalars(n) ==
    /\ sigmap.num_scalars + n <= MaxAllocated
    /\ Built("allocate_scalars", Handed(allocate_scalars_array(sigmap, n).vars, <<>>),
             allocate_scalars_array(sigmap, n).rel,
             Ok(allocate_scalars_array(sigmap, n).vars))

AllocElements(n) ==
    /\ sigmap.num_elements + n <= MaxAllocated
    /\ Built("allocate_elements", Handed(<<>>, allocate_elements_array(sigmap, n).vars),
             allocate_elements_array(sigmap, n).rel,
             Ok(allocate_elements_array(sigmap, n).vars))

InitAlloc ==
    /\ sigmap = LinearRelation_new
    /\ hash_state = Codec_new(<<0>>)
    /\ iv = <<0>>
    /\ proof = NoProof
    /\ last = Call("LinearRelation::new", [scalars |-> <<>>, elements |-> <<>>], Ok(<<>>))
    /\ running = NoCalls

NextAlloc ==
    \/ AllocScalar
    \/ AllocElement
    \/ \E n \in 0 .. MaxBulk : AllocScalars(n)
    \/ \E n \in 0 .. MaxBulk : AllocElements(n)

SpecAlloc == InitAlloc /\ [][NextAlloc]_vars

\* compute_image called, any number of times, on the statements the wrapper
\* is built over, whose elements are assigned in part or in full
NextImage ==
    \E scalars \in SeqOf(Scalars, sigmap.num_scalars) : ComputeImage(scalars)

SpecImage == InitSigma /\ [][NextImage]_vars

-----------------------------------------------------------------------------
(* The expression DSL of linear_relation/ops.rs. A Sum<T> is the sequence  *)
(* of its items; a bare item is a ScalarVar handle; a Weighted<T, F> is    *)
(* the record of its term and weight.                                      *)

MaxVar == 2
MaxSum == 2

Weighted(term, weight) == [term |-> term, weight |-> weight]

\* impl Add<T> for Sum<T>: self.0.push(rhs); self
Sum_add(self, rhs) == Append(self, rhs)

\* impl Add<Sum<$type>> for $type: rhs + self
Term_add_Sum(self, rhs) == Sum_add(rhs, self)

\* impl Add<Sum<T>> for Sum<T>: self.0.extend(rhs.0); self
Sum_add_Sum(self, rhs) == self \o rhs

\* impl Add<Weighted<T, F>> for Weighted<T, F>: Sum(vec![self, rhs])
Weighted_add(self, rhs) == <<self, rhs>>

\* impl Neg for Weighted<T, F>: the weight negated in the field
Weighted_neg(self) == Weighted(self.term, (Q - self.weight) % Q)

\* impl Neg for Sum<T>: every item negated, in place
Sum_neg(self) == [i \in 1 .. Len(self) |-> Weighted_neg(self[i])]

\* impl Sub<Rhs> for Sum<T>, Rhs a sum: rhs.neg() + self
Sum_sub(self, rhs) == Sum_add_Sum(Sum_neg(rhs), self)

\* impl Sub<Rhs> for Weighted<T, F>, Rhs a weighted term: rhs.neg() + self
Weighted_sub(self, rhs) == Weighted_add(Weighted_neg(rhs), self)

DslVars == 0 .. MaxVar
DslSums == UNION {SeqOf(DslVars, n) : n \in 0 .. MaxSum}
WeightedTerms == {Weighted(t, w) : t \in 0 .. 1, w \in Scalars \ {0}}
WeightedSums == UNION {SeqOf(WeightedTerms, n) : n \in 0 .. MaxSum}

Evaluated(op, lhs, rhs, res) ==
    Built(op, [lhs |-> lhs, rhs |-> rhs], sigmap, Ok(res))

SumAddTerm(sum, x) == Evaluated("Sum + x", sum, x, Sum_add(sum, x))

TermAddSum(x, sum) == Evaluated("x + Sum", x, sum, Term_add_Sum(x, sum))

SumAddSum(a, b) == Evaluated("Sum + Sum", a, b, Sum_add_Sum(a, b))

SumSubSum(a, b) == Evaluated("Sum - Sum", a, b, Sum_sub(a, b))

WeightedSubWeighted(a, b) == Evaluated("Weighted - Weighted", a, b, Weighted_sub(a, b))

NextOps ==
    \/ \E sum \in DslSums, x \in DslVars : SumAddTerm(sum, x)
    \/ \E x \in DslVars, sum \in DslSums : TermAddSum(x, sum)
    \/ \E a \in DslSums, b \in DslSums : SumAddSum(a, b)
    \/ \E a \in WeightedSums, b \in WeightedSums : SumSubSum(a, b)
    \/ \E a \in WeightedTerms, b \in WeightedTerms : WeightedSubWeighted(a, b)

SpecOps == InitBuild /\ [][NextOps]_vars

-----------------------------------------------------------------------------
(* Calls in progress: a caller's call advances one statement at a time, so *)
(* that calls of several callers on one wrapper interleave, and one caller *)
(* makes several calls in a row.                                           *)

ProveArg(witness, rng) == [NoArg EXCEPT !.witness = witness, !.rng = rng]

VerifyArg(t) ==
    [NoArg EXCEPT !.commitment = t.commitment, !.challenge = t.challenge,
                  !.response = t.response]

BytesArg(bytes) == [NoArg EXCEPT !.bytes = bytes]

\* The transcripts prove returns on nizk for witnesses in W and RNG streams in R
HonestTranscripts(nizk, W, R) ==
    {NISigmaProtocol_prove(nizk, x[1], x[2]).val :
        x \in {y \in W \X R : IsOk(NISigmaProtocol_prove(nizk, y[1], y[2]))}}

\* Those transcripts, and each with another challenge
TranscriptsToVerify(nizk, W, R) ==
    HonestTranscripts(nizk, W, R) \cup
    {[t EXCEPT !.challenge = FAdd(@, 1)] : t \in HonestTranscripts(nizk, W, R)}

\* Encoded proofs, whole and with the last byte missing
BytesToVerify(encoded) ==
    encoded \cup {SubSeq(b, 1, Len(b) - 1) : b \in encoded}

Busy(q) == running[q].pc \notin {"idle", "done"}

\* Caller p's call moves to local, the wrapper's codec being shared after it
Step(p, local, shared) ==
    /\ running' = [running EXCEPT ![p] =
            [local EXCEPT !.overlapped = @ \/ \E q \in Procs \ {p} : Busy(q)]]
    /\ hash_state' = shared
    /\ UNCHANGED <<sigmap, iv, proof, last>>

Begin(p, op, arg) ==
    /\ running[p].pc = "idle"
    /\ running[p].calls < MaxCalls
    /\ Step(p, [Idle EXCEPT !.pc = "start", !.op = op, !.arg = arg,
                            !.commitment = arg.commitment,
                            !.challenge = arg.challenge,
                            !.response = arg.response,
                            !.calls = running[p].calls],
            hash_state)

Parsed(rel, local) ==
    IF local.op = "verify_batchable"
    THEN verify_batchable_parse(rel, local.arg.bytes)
    ELSE verify_compact_parse(rel, local.arg.bytes)

Deserialize(p) ==
    /\ running[p].pc = "start"
    /\ running[p].op \in {"verify_batchable", "verify_compact"}
    /\ Step(p, IF IsOk(Parsed(sigmap, running[p]))
               THEN [running[p] EXCEPT
                        !.pc = "parsed",
                        !.commitment = Parsed(sigmap, running[p]).val.commitment,
                        !.challenge = Parsed(sigmap, running[p]).val.challenge,
                        !.response = Parsed(sigmap, running[p]).val.response]
               ELSE [running[p] EXCEPT !.pc = "done",
                                       !.res = Parsed(sigmap, running[p])],
            hash_state)

Clone(p) ==
    /\ \/ running[p].pc = "start" /\ running[p].op \in ProveOps \cup {"verify"}
       \/ running[p].pc = "parsed"
    /\ Step(p, [running[p] EXCEPT !.pc = "cloned", !.codec = clone_hash_state(Nizk)],
            hash_state)

Committed(rel, local) ==
    SchnorrProof_prover_commit(rel, local.arg.witness, local.arg.rng)

Commit(p) ==
    /\ running[p].pc = "cloned"
    /\ running[p].op \in ProveOps
    /\ Step(p, IF IsOk(Committed(sigmap, running[p]))
               THEN [running[p] EXCEPT
                        !.pc = "committed",
                        !.commitment = Committed(sigmap, running[p]).val.commitment,
                        !.prover_state = Committed(sigmap, running[p]).val.prover_state]
               ELSE [running[p] EXCEPT !.pc = "done",
                                       !.res = Committed(sigmap, running[p])],
            hash_state)

\* codec.prover_message(&data)
Absorb(p) ==
    /\ \/ running[p].pc = "committed"
       \/ running[p].pc = "cloned" /\ running[p].op \in VerifyOps
    /\ Step(p, [running[p] EXCEPT
                    !.pc = "absorbed",
                    !.codec = Absorbed(hash_state, running[p]).codec],
            Absorbed(hash_state, running[p]).hash_state)

\* .verifier_challenge()
Squeeze(p) ==
    /\ running[p].pc = "absorbed"
    /\ Step(p, [running[p] EXCEPT
                    !.pc = "challenged",
                    !.expected = verifier_challenge(running[p].codec)],
            hash_state)

\* prover_response takes prover_state by value: the nonces are gone after it
Respond(p) ==
    /\ running[p].pc = "challenged"
    /\ running[p].op \in ProveOps
    /\ Step(p, IF IsOk(prove_respond(sigmap, running[p]))
               THEN [running[p] EXCEPT
                        !.pc = "responded",
                        !.prover_state = Idle.prover_state,
                        !.response = prove_respond(sigmap, running[p]).val]
               ELSE [running[p] EXCEPT !.pc = "done",
                                       !.prover_state = Idle.prover_state,
                                       !.res = prove_respond(sigmap, running[p])],
            hash_state)

Finish(p) ==
    /\ \/ running[p].pc = "responded"
       \/ running[p].pc = "challenged" /\ running[p].op \in VerifyOps
    /\ Step(p, [running[p] EXCEPT !.pc = "done",
                                  !.res = FinishResult(sigmap, running[p])],
            hash_state)

\* The call has returned; the caller may make its next one
Return(p) ==
    /\ running[p].pc = "done"
    /\ running' = [running EXCEPT ![p] = [Idle EXCEPT !.calls = running[p].calls + 1]]
    /\ last' = Call(running[p].op, running[p].arg, running[p].res)
    /\ UNCHANGED <<sigmap, hash_state, iv, proof>>

\* One caller, every call of the wrapper, one after the other. A verify*
\* call is given what the call before returned, or that altered.
ReuseStatements ==
    {Build(discrete_logarithm, <<Some(G_generator), Some(x)>>) : x \in Elements}

InitReuse == Init /\ sigmap \in ReuseStatements

Returned(op) == last.op = op /\ IsOk(last.res)

NextReuse ==
    \/ \E op \in ProveOps, witness, rng \in SeqOf(Scalars, witness_length(sigmap)) :
            Begin(1, op, ProveArg(witness, rng))
    \/ /\ Returned("prove")
       /\ \E shift \in Scalars :
            Begin(1, "verify",
                  VerifyArg([last.res.val EXCEPT !.challenge = FAdd(@, shift)]))
    \/ /\ Returned("prove_batchable")
       /\ \E bytes \in BytesToVerify({last.res.val}) :
            Begin(1, "verify_batchable", BytesArg(bytes))
    \/ /\ Returned("prove_compact")
       /\ \E bytes \in BytesToVerify({last.res.val}) :
            Begin(1, "verify_compact", BytesArg(bytes))
    \/ Deserialize(1)
    \/ Clone(1)
    \/ Commit(1)
    \/ Absorb(1)
    \/ Squeeze(1)
    \/ Respond(1)
    \/ Finish(1)
    \/ Return(1)

SpecReuse == InitReuse /\ [][NextReuse]_vars

\* Several callers, one prove or verify each, on one statement
SharedStatement ==
    Build(discrete_logarithm, <<Some(G_generator), Some(G_generator)>>)

SharedIV == <<0>>

\* Each caller has its own RNG
OwnRng(p) == [k \in 1 .. witness_length(SharedStatement) |-> p % Q]

\* The transcripts the callers' prove calls return, and each with another
\* challenge
SharedTranscripts ==
    TranscriptsToVerify(NISigmaProtocol_new(SharedIV, SharedStatement),
                        SeqOf(Scalars, witness_length(SharedStatement)),
                        {OwnRng(q) : q \in Procs})

InitShared == Init /\ iv = SharedIV /\ sigmap = SharedStatement

NextShared ==
    \/ \E p \in Procs, witness \in SeqOf(Scalars, witness_length(sigmap)) :
            Begin(p, "prove", ProveArg(witness, OwnRng(p)))
    \/ \E p \in Procs, t \in SharedTranscripts : Begin(p, "verify", VerifyArg(t))
    \/ \E p \in Procs : Clone(p)
    \/ \E p \in Procs : Commit(p)
    \/ \E p \in Procs : Absorb(p)
    \/ \E p \in Procs : Squeeze(p)
    \/ \E p \in Procs : Respond(p)
    \/ \E p \in Procs : Finish(p)

SpecShared == InitShared /\ [][NextShared]_vars

-----------------------------------------------------------------------------
(* Vocabulary of the properties                                            *)

Assigned(rel, var) ==
    var < Len(rel.group_elements) /\ rel.group_elements[var + 1] # None

\* Every element a term or an image entry refers to has a value
FullyAssigned(rel) ==
    /\ \A j \in 1 .. Len(rel.image) : Assigned(rel, rel.image[j])
    /\ \A j \in 1 .. Len(rel.constraints) :
            \A k \in 1 .. Len(rel.constraints[j]) :
                Assigned(rel, rel.constraints[j][k].elem)

ValueOf(rel, var) == rel.group_elements[var + 1][1]

AllIdentityImage(rel) ==
    \A j \in 1 .. Len(rel.image) :
        Assigned(rel, rel.image[j]) /\ ValueOf(rel, rel.image[j]) = G_identity

\* witness satisfies every equation of rel
Satisfies(rel, witness) ==
    /\ Len(witness) = rel.num_scalars
    /\ FullyAssigned(rel)
    /\ LinearMap_evaluate(rel, witness) = LinearRelation_image(rel)

\* The sum of the bases that scalar i multiplies in the combination lc
RECURSIVE NetBase(_, _, _)
NetBase(rel, lc, i) ==
    IF lc = <<>>
    THEN G_identity
    ELSE FAdd(IF Head(lc).scalar = i THEN ValueOf(rel, Head(lc).elem) ELSE G_identity,
              NetBase(rel, Tail(lc), i))

\* Scalar i moves the left-hand side of some equation
Contributes(rel, i) ==
    \E j \in 1 .. Len(rel.constraints) : NetBase(rel, rel.constraints[j], i) # G_identity

\* The call before was op, on the wrapper that issued the proof in hand
OwnCall(op, kind) == last.op = op /\ Own /\ proof.kind = kind

-----------------------------------------------------------------------------
(* C1: completeness. For a statement whose referenced elements are all     *)
(* assigned and whose image is not all identity, and a witness satisfying  *)
(* it, prove_batchable and prove_compact return a proof, and               *)
(* verify_batchable and verify_compact of that proof on the same wrapper   *)
(* return Ok(()).                                                          *)
C1_Completeness ==
    /\ (/\ last.op \in {"prove_batchable", "prove_compact"}
        /\ Satisfies(sigmap, last.arg.witness)
        /\ ~AllIdentityImage(sigmap)) => IsOk(last.res) /\ Own
    /\ (/\ OwnCall("verify_batchable", "batchable")
        /\ last.arg.bytes = proof.bytes
        /\ Satisfies(sigmap, proof.witness)) => last.res = Ok(<<>>)
    /\ (/\ OwnCall("verify_compact", "compact")
        /\ last.arg.bytes = proof.bytes
        /\ Satisfies(sigmap, proof.witness)) => last.res = Ok(<<>>)

C1_Witness ==
    /\ OwnCall("verify_compact", "compact")
    /\ last.arg.bytes = proof.bytes
    /\ Satisfies(sigmap, proof.witness)
    /\ Len(sigmap.constraints) = 2
    /\ proof.witness # <<0>>
    /\ last.res = Ok(<<>>)

(* C2: after NISigmaProtocol::new(iv, S) the hash state has absorbed the   *)
(* IV, then S.protocol_identifier(), then S.instance_label(). The code     *)
(* absorbs the IV alone, so this does not hold of any wrapper.             *)
C2_LabelAbsorbed ==
    hash_state = iv \o SchnorrProof_protocol_identifier
                    \o SchnorrProof_instance_label(sigmap).val

(* C3: a Pedersen statement and the same statement with its two terms      *)
(* swapped have different labels, and a batchable proof issued for the     *)
(* first is rejected by a wrapper over the second with the same IV and     *)
(* elements. The labels differ, but the proof is accepted.                 *)
C3_SwappedRejected ==
    (/\ last.op = "verify_batchable"
     /\ proof.kind = "batchable"
     /\ last.arg.bytes = proof.bytes
     /\ iv = proof.iv
     /\ proof.sigmap.num_scalars = 2
     /\ Len(proof.sigmap.constraints) = 1
     /\ Len(proof.sigmap.constraints[1]) = 2
     /\ sigmap = SwapTerms(proof.sigmap)
     /\ sigmap # proof.sigmap)
        => /\ LinearRelation_label(sigmap) # LinearRelation_label(proof.sigmap)
           /\ ~IsOk(last.res)

(* C4: a batchable proof issued under one IV is rejected by a wrapper over *)
(* the same statement built with a different IV: the challenge recomputed  *)
(* there differs from the one the prover used.                             *)
C4_IVBinding ==
    (/\ last.op = "verify_batchable"
     /\ proof.kind = "batchable"
     /\ last.arg.bytes = proof.bytes
     /\ sigmap = proof.sigmap
     /\ iv # proof.iv)
        => /\ last.res = Err("VerificationFailure")
           /\ Challenge(Nizk, proof.t.commitment) # proof.t.challenge

C4_Witness ==
    /\ last.op = "verify_batchable"
    /\ proof.kind = "batchable"
    /\ last.arg.bytes = proof.bytes
    /\ sigmap = proof.sigmap
    /\ iv # proof.iv
    /\ Satisfies(proof.sigmap, proof.witness)
    /\ last.res = Err("VerificationFailure")

\* verify was called with a transcript that differs from the issued one in
\* exactly one commitment element, the challenge, or one response entry
Tampered ==
    /\ OwnCall("verify", "transcript")
    /\ last.arg \in SingleChanges(proof.t)
    /\ last.arg # proof.t

\* The entry of the response that differs is the one of scalar i
ResponseChangedAt(i) == last.arg.response[i + 1] # proof.t.response[i + 1]

(* C5 as stated: verify rejects every transcript obtained from an issued   *)
(* one by a single change, the response entries of scalars that appear in  *)
(* no equation included.                                                   *)
C5_EveryChangeRejected == Tampered => ~IsOk(last.res)

(* C5: verify rejects every transcript obtained from an issued one by      *)
(* changing one commitment element, the challenge, or the response entry   *)
(* of a scalar that moves the left-hand side of some equation; it accepts  *)
(* the one obtained by changing the response entry of any other scalar.    *)
C5_ContributingChangeRejected ==
    Tampered =>
        IF \E i \in 0 .. (sigmap.num_scalars - 1) :
                ResponseChangedAt(i) /\ ~Contributes(sigmap, i)
        THEN last.res = Ok(<<>>)
        ELSE last.res = Err("VerificationFailure")

C5_Witness ==
    /\ Tampered
    /\ \E i \in 0 .. (sigmap.num_scalars - 1) :
            ResponseChangedAt(i) /\ Contributes(sigmap, i)
    /\ Challenge(Nizk, last.arg.commitment) = last.arg.challenge
    /\ last.res = Err("VerificationFailure")

(* C6: verify_batchable and verify_compact return an Err, and never panic, *)
(* when the proof bytes fail to deserialize. The code unwraps the result   *)
(* of the deserialization, so they panic.                                  *)
C6_DeserializationFailureIsErr ==
    /\ (/\ last.op = "verify_batchable"
        /\ ~IsOk(deserialize_batchable(sigmap, last.arg.bytes)))
            => last.res.tag = "Err"
    /\ (/\ last.op = "verify_compact"
        /\ ~IsOk(deserialize_compact(sigmap, last.arg.bytes)))
            => last.res.tag = "Err"

(* C7: verify recomputes the challenge from the hash state and the         *)
(* serialized commitment; when it differs from the supplied one the result *)
(* is VerificationFailure whatever the verifier would return, and when it  *)
(* is equal the result is the verifier's.                                  *)
C7_ChallengeConsistency ==
    last.op = "verify" =>
        IF verifier_challenge(prover_message(hash_state,
                serialize_commitment(last.arg.commitment))) # last.arg.challenge
        THEN last.res = Err("VerificationFailure")
        ELSE last.res = SchnorrProof_verifier(sigmap, last.arg.commitment,
                                              last.arg.challenge, last.arg.response)

C7_Witness ==
    /\ last.op = "verify"
    /\ verifier_challenge(prover_message(hash_state,
            serialize_commitment(last.arg.commitment))) # last.arg.challenge
    /\ SchnorrProof_verifier(sigmap, last.arg.commitment,
                             last.arg.challenge, last.arg.response) = Ok(<<>>)
    /\ last.res = Err("VerificationFailure")

(* C8: when every image element is the identity, prover_commit, and so     *)
(* prove, prove_batchable and prove_compact, return                        *)
(* InvalidInstanceWitnessPair.                                             *)
C8_TrivialRefusal ==
    (/\ last.op \in {"prover_commit", "prove", "prove_batchable", "prove_compact"}
     /\ Len(last.arg.witness) = witness_length(sigmap)
     /\ AllIdentityImage(sigmap))
        => last.res = Err("InvalidInstanceWitnessPair")

C8_Witness ==
    /\ last.op = "prove_batchable"
    /\ AllIdentityImage(sigmap)
    /\ Satisfies(sigmap, last.arg.witness)
    /\ last.res = Err("InvalidInstanceWitnessPair")

(* C9: reading a group variable that was allocated but never assigned      *)
(* yields UnassignedGroupVar and never panics, through GroupMap::get,      *)
(* evaluate, image and prover_commit, also when its index is greater than  *)
(* every assigned index. The code indexes the vector of assignments, which *)
(* ends at the greatest assigned index, so it panics beyond it.            *)
C9_UnassignedIsErr ==
    /\ (last.op = "get" /\ ~Assigned(sigmap, last.arg.var))
            => last.res = Err("UnassignedGroupVar")
    /\ (last.op = "image" /\ ~FullyAssigned(sigmap)) => last.res.tag = "Err"
    /\ (last.op = "evaluate" /\ ~FullyAssigned(sigmap)) => last.res.tag # "Panic"
    /\ (last.op = "prover_commit" /\ ~FullyAssigned(sigmap)) => last.res.tag = "Err"

AloneResult(local) ==
    CASE local.op = "prove" ->
            NISigmaProtocol_prove(NISigmaProtocol_new(iv, sigmap),
                                  local.arg.witness, local.arg.rng)
      [] local.op = "prove_batchable" ->
            NISigmaProtocol_prove_batchable(NISigmaProtocol_new(iv, sigmap),
                                            local.arg.witness, local.arg.rng)
      [] local.op = "prove_compact" ->
            NISigmaProtocol_prove_compact(NISigmaProtocol_new(iv, sigmap),
                                          local.arg.witness, local.arg.rng)
      [] local.op = "verify" ->
            NISigmaProtocol_verify(NISigmaProtocol_new(iv, sigmap),
                                   local.arg.commitment, local.arg.challenge,
                                   local.arg.response)
      [] local.op = "verify_batchable" ->
            NISigmaProtocol_verify_batchable(NISigmaProtocol_new(iv, sigmap),
                                             local.arg.bytes)
      [] local.op = "verify_compact" ->
            NISigmaProtocol_verify_compact(NISigmaProtocol_new(iv, sigmap),
                                           local.arg.bytes)

(* C11: no transcript carryover. No statement of a prove, verify,          *)
(* prove_batchable, verify_batchable, prove_compact or verify_compact      *)
(* call, successful or failed, changes hash_state or sigmap, and each call *)
(* of a sequence returns what it returns as the first call on the wrapper. *)
C11_NoCarryover ==
    [][/\ hash_state' = hash_state
       /\ sigmap' = sigmap
       /\ running'[1].pc = "done" => running'[1].res = AloneResult(running'[1])]_vars

C11_Witness ==
    /\ running[1].calls = 2
    /\ last.op = "verify_batchable"
    /\ last.res = Panic
    /\ running[1].pc = "done"
    /\ running[1].op = "prove_compact"
    /\ IsOk(running[1].res)
    /\ hash_state = NISigmaProtocol_new(iv, sigmap).hash_state

(* C12: when the statements of several prove and verify calls on one       *)
(* wrapper interleave in any order, each call with its own RNG and         *)
(* witness, every call derives the challenge and returns the result it     *)
(* returns when run alone.                                                 *)
C12_InterleavingIndependence ==
    \A p \in Procs :
        /\ running[p].pc = "challenged" =>
                running[p].expected =
                    Challenge(NISigmaProtocol_new(iv, sigmap), running[p].commitment)
        /\ running[p].pc = "done" => running[p].res = AloneResult(running[p])

C12_Witness ==
    \E p, q \in Procs :
        /\ running[p].pc = "done" /\ running[q].pc = "done"
        /\ running[p].overlapped /\ running[q].overlapped
        /\ running[p].op = "prove" /\ IsOk(running[p].res)
        /\ running[q].op = "verify" /\ IsOk(running[q].res)

\* The honest transcript for witness w, challenge c and nonces r
HonestTranscript(rel, w, c, r) ==
    Transcript(LinearMap_evaluate(rel, r).val, c,
               SchnorrProof_prover_response(rel, [nonces |-> r, witness |-> w], c).val)

\* The simulated transcript for challenge c and the RNG stream rng
SimulatedTranscript(rel, c, rng) ==
    Transcript(SchnorrProof_simulate_commitment(rel, c,
                    SchnorrProof_simulate_response(rel, rng)).val,
               c, SchnorrProof_simulate_response(rel, rng))

\* Every transcript is honest for as many nonce vectors as it is simulated
\* for RNG streams
SameCollections(rel, w, c) ==
    \A t \in {HonestTranscript(rel, w, c, r) : r \in SeqOf(Scalars, rel.num_scalars)}
            \cup {SimulatedTranscript(rel, c, rng) :
                        rng \in SeqOf(Scalars, rel.num_scalars)} :
        Cardinality({r \in SeqOf(Scalars, rel.num_scalars) :
                        HonestTranscript(rel, w, c, r) = t})
            = Cardinality({rng \in SeqOf(Scalars, rel.num_scalars) :
                        SimulatedTranscript(rel, c, rng) = t})

(* C13: HVZK simulation. For a statement, a witness satisfying it and a    *)
(* challenge c, the honest transcripts (evaluate(r), c, r + c*w) over all  *)
(* nonce vectors r and the simulated transcripts (simulate_commitment(c,   *)
(* z), c, z) over all RNG streams are the same collection with the same    *)
(* multiplicities; the simulated response is one RNG draw per entry, and   *)
(* the simulated transcript satisfies the verifier.                        *)
C13_Simulation ==
    (last.op = "simulate_transcript" /\ IsOk(last.res)) =>
        /\ \A k \in 1 .. sigmap.num_scalars :
                last.res.val.response[k] = last.arg.rng[k + 1]
        /\ SchnorrProof_verifier(sigmap, last.res.val.commitment,
                last.res.val.challenge, last.res.val.response) = Ok(<<>>)
        /\ \A w \in SeqOf(Scalars, sigmap.num_scalars) :
                Satisfies(sigmap, w) => SameCollections(sigmap, w, last.res.val.challenge)

C13_Witness ==
    /\ last.op = "simulate_transcript"
    /\ IsOk(last.res)
    /\ sigmap.num_scalars = 2
    /\ Contributes(sigmap, 0) /\ Contributes(sigmap, 1)
    /\ last.res.val.response[1] # last.res.val.response[2]
    /\ last.res.val.challenge # 0
    /\ \E w \in SeqOf(Scalars, sigmap.num_scalars) : Satisfies(sigmap, w)

(* C14: for every transcript (T, c, z) that prove returns, the commitment  *)
(* recomputed from the challenge and the response, evaluate(z)[j] - c*X_j, *)
(* equals T entry by entry, the batchable serialization of the transcript  *)
(* is accepted by verify_batchable and its compact serialization by        *)
(* verify_compact, on the wrapper that proved.                             *)
C14_RecomputedCommitment ==
    (last.op = "prove" /\ IsOk(last.res)) =>
        /\ Len(last.res.val.commitment) = Len(sigmap.image)
        /\ \A j \in 1 .. Len(sigmap.image) :
                FSub(LinearMap_evaluate(sigmap, last.res.val.response).val[j],
                     GMul(ValueOf(sigmap, sigmap.image[j]), last.res.val.challenge))
                    = last.res.val.commitment[j]
        /\ get_commitment(sigmap, last.res.val.challenge, last.res.val.response)
                = Ok(last.res.val.commitment)
        /\ NISigmaProtocol_verify_batchable(Nizk,
                serialize_batchable(sigmap, last.res.val.commitment,
                    last.res.val.challenge, last.res.val.response).val) = Ok(<<>>)
        /\ NISigmaProtocol_verify_compact(Nizk,
                serialize_compact(sigmap, last.res.val.commitment,
                    last.res.val.challenge, last.res.val.response).val) = Ok(<<>>)

C14_Witness ==
    /\ last.op = "prove"
    /\ IsOk(last.res)
    /\ Len(sigmap.image) = 2
    /\ last.res.val.challenge # 0
    /\ \E j \in 1 .. 2 : ValueOf(sigmap, sigmap.image[j]) # G_identity
    /\ \E k \in 1 .. Len(last.arg.witness) : last.arg.witness[k] # 0

\* The length of the batchable format of the statement
BatchableLen(rel) == Len(rel.constraints) * ElemReprLen + rel.num_scalars * ScalarReprLen

(* C15: wire round trip. The batchable serialization of (T, c, z) has      *)
(* Ne*repr_len(G) + num_scalars*repr_len(Scalar) bytes, deserialize_       *)
(* batchable of it returns (T, z), and deserialize_batchable of an input   *)
(* of any other length is Err(VerificationFailure). SchnorrProtocolCustom  *)
(* answers a wrong length with ProofSizeMismatch.                          *)
C15_WireRoundTrip ==
    /\ last.op = "serialize_batchable" =>
            IsOk(last.res) /\ Len(last.res.val) = BatchableLen(sigmap)
    /\ (last.op = "deserialize_batchable" /\ last.arg.bytes = proof.bytes) =>
            last.res = Ok([commitment |-> proof.t.commitment,
                           response |-> proof.t.response])
    /\ (last.op = "deserialize_batchable" /\ Len(last.arg.bytes) # BatchableLen(sigmap)) =>
            last.res = Err("VerificationFailure")

\* The same with the error kind left open, and the error kind of SchnorrProof
C15_RoundTripAndLength ==
    /\ last.op = "serialize_batchable" =>
            IsOk(last.res) /\ Len(last.res.val) = BatchableLen(sigmap)
    /\ (last.op = "deserialize_batchable" /\ last.arg.bytes = proof.bytes) =>
            last.res = Ok([commitment |-> proof.t.commitment,
                           response |-> proof.t.response])
    /\ (last.op = "deserialize_batchable" /\ Len(last.arg.bytes) # BatchableLen(sigmap)) =>
            /\ last.res.tag = "Err"
            /\ last.arg.protocol = "SchnorrProof" => last.res.err = "VerificationFailure"

\* The layout of the label: the number of equations, then per equation the
\* image index, the number of terms, and per term the scalar index and the
\* element index, each as a u32 in little-endian order
LabelLayout(rel) ==
    U32LE(Len(rel.image)) \o
    Concat([j \in 1 .. Len(rel.image) |->
        U32LE(rel.image[j]) \o U32LE(Len(rel.constraints[j])) \o
        Concat([k \in 1 .. Len(rel.constraints[j]) |->
            U32LE(rel.constraints[j][k].scalar) \o U32LE(rel.constraints[j][k].elem)])])

\* The relations that differ from rel in one index, in the order of two
\* neighbouring terms, or in the order of two neighbouring equations
ShapeChanges(rel) ==
    ({[rel EXCEPT !.image[j] = v] : j \in 1 .. Len(rel.image), v \in 0 .. MaxElements}
     \cup UNION {{[rel EXCEPT !.constraints[j][k].scalar = v] :
                    k \in 1 .. Len(rel.constraints[j]), v \in 0 .. MaxScalars} :
                 j \in 1 .. Len(rel.image)}
     \cup UNION {{[rel EXCEPT !.constraints[j][k].elem = v] :
                    k \in 1 .. Len(rel.constraints[j]), v \in 0 .. MaxElements} :
                 j \in 1 .. Len(rel.image)}
     \cup {[rel EXCEPT !.constraints[j] = Reverse(@)] : j \in 1 .. Len(rel.image)}
     \cup {[rel EXCEPT !.constraints = Reverse(@), !.image = Reverse(@)]})
    \ {rel}

(* C16: label() is the number of equations, then per equation the image    *)
(* index, the number of terms and per term the scalar and element index,   *)
(* all u32 little-endian; set_element, set_elements and compute_image do   *)
(* not change it; a change of an index, of the term order or of the        *)
(* equation order changes it.                                              *)
C16_Label ==
    /\ [](/\ LinearRelation_label(sigmap) = Ok(LabelLayout(sigmap))
          /\ \A changed \in ShapeChanges(sigmap) :
                LinearRelation_label(changed) # LinearRelation_label(sigmap))
    /\ [][last'.op \in {"set_element", "set_elements", "compute_image"} =>
                LinearRelation_label(sigmap') = LinearRelation_label(sigmap)]_vars

C16_Witness ==
    /\ last.op = "compute_image"
    /\ IsOk(last.res)
    /\ Len(sigmap.constraints) = 2
    /\ Len(sigmap.constraints[1]) = 2
    /\ sigmap.constraints[1][1] # sigmap.constraints[1][2]
    /\ sigmap.image[1] # sigmap.image[2]

C18_WriteOnce ==
    [][/\ \A var \in 0 .. (Len(sigmap.group_elements) - 1) :
            Assigned(sigmap, var) =>
                GroupMap_get(sigmap'.group_elements, var) = Ok(ValueOf(sigmap, var))
       /\ Len(sigmap'.group_elements) >= Len(sigmap.group_elements)
       /\ last'.op = "set_element" =>
            IF Assigned(sigmap, last'.arg.var)
            THEN IF ValueOf(sigmap, last'.arg.var) = last'.arg.element
                 THEN sigmap' = sigmap /\ last'.res = Ok(<<>>)
                 ELSE last'.res = Panic
            ELSE /\ last'.res = Ok(<<>>)
                 /\ GroupMap_get(sigmap'.group_elements, last'.arg.var)
                        = Ok(last'.arg.element)]_vars

C18_Witness ==
    /\ last.op = "set_element"
    /\ last.res = Panic
    /\ Assigned(sigmap, last.arg.var)
    /\ ValueOf(sigmap, last.arg.var) # last.arg.element
    /\ Len(sigmap.group_elements) = 2
    /\ Len(sigmap.image) > 0

\* Every index a constraint or the image refers to has been allocated
IndexInvariant(rel) ==
    /\ \A j \in 1 .. Len(rel.constraints) : \A k \in 1 .. Len(rel.constraints[j]) :
            /\ rel.constraints[j][k].scalar < rel.num_scalars
            /\ rel.constraints[j][k].elem < rel.num_elements
    /\ \A j \in 1 .. Len(rel.image) : rel.image[j] < rel.num_elements

(* C19: after any sequence of allocate_scalar, allocate_element,           *)
(* append_equation, allocate_eq and set_element calls, every ScalarVar in  *)
(* a constraint has an index below num_scalars and every GroupVar in a     *)
(* constraint or in the image an index below num_elements, also when the   *)
(* handles given to append_equation come from another relation.            *)
(* append_equation stores the handles it is given without looking at them. *)
C19_IndexInvariant == IndexInvariant(sigmap)

(* C20: image and constraints have the same length after every call.      *)
(* append_equation(lhs, rhs) appends lhs to the image and rhs to the       *)
(* constraints and no other call touches the entries already there, so the *)
(* j-th image variable is the lhs of the j-th call; allocate_eq(rhs)       *)
(* returns the GroupVar whose index is num_elements before the call,       *)
(* raises num_elements by one and appends one equation with that variable  *)
(* as lhs and rhs as right-hand side.                                      *)
C20_EquationsAndImage ==
    [][/\ Len(sigmap'.image) = Len(sigmap'.constraints)
       /\ last'.op = "append_equation" =>
            /\ sigmap'.image = Append(sigmap.image, last'.arg.lhs)
            /\ sigmap'.constraints = Append(sigmap.constraints, last'.arg.rhs)
            /\ sigmap'.num_elements = sigmap.num_elements
       /\ last'.op = "allocate_eq" =>
            /\ last'.res = Ok(sigmap.num_elements)
            /\ sigmap'.num_elements = sigmap.num_elements + 1
            /\ sigmap'.image = Append(sigmap.image, sigmap.num_elements)
            /\ sigmap'.constraints = Append(sigmap.constraints, last'.arg.rhs)
            /\ sigmap'.num_scalars = sigmap.num_scalars
            /\ sigmap'.group_elements = sigmap.group_elements
       /\ last'.op \notin {"append_equation", "allocate_eq"} =>
            /\ sigmap'.image = sigmap.image
            /\ sigmap'.constraints = sigmap.constraints]_vars

C20_Witness ==
    /\ last.op = "allocate_eq"
    /\ last.res = Ok(1)
    /\ sigmap.num_elements = 2
    /\ Len(sigmap.image) = 2
    /\ sigmap.image = <<0, 1>>
    /\ Len(sigmap.constraints[2]) = 2

(* C21: allocation is dense and monotone. allocate_scalar returns the      *)
(* index num_scalars had before the call and raises it by one;             *)
(* allocate_scalars::<N> returns N consecutive increasing indices in array *)
(* order, starting at that index; likewise for elements. The handles       *)
(* handed out so far are 0 .. num_scalars-1 (0 .. num_elements-1), each    *)
(* once, and allocating scalars leaves num_elements alone and conversely.  *)
C21_DenseAllocation ==
    /\ [](/\ last.arg.scalars = [i \in 1 .. sigmap.num_scalars |-> i - 1]
          /\ last.arg.elements = [i \in 1 .. sigmap.num_elements |-> i - 1])
    /\ [][/\ last'.op = "allocate_scalar" =>
                /\ last'.res = Ok(sigmap.num_scalars)
                /\ sigmap'.num_scalars = sigmap.num_scalars + 1
          /\ last'.op = "allocate_element" =>
                /\ last'.res = Ok(sigmap.num_elements)
                /\ sigmap'.num_elements = sigmap.num_elements + 1
          /\ last'.op = "allocate_scalars" =>
                /\ \A k \in 1 .. Len(last'.res.val) :
                        last'.res.val[k] = sigmap.num_scalars + k - 1
                /\ sigmap'.num_scalars = sigmap.num_scalars + Len(last'.res.val)
          /\ last'.op = "allocate_elements" =>
                /\ \A k \in 1 .. Len(last'.res.val) :
                        last'.res.val[k] = sigmap.num_elements + k - 1
                /\ sigmap'.num_elements = sigmap.num_elements + Len(last'.res.val)
          /\ last'.op \in {"allocate_scalar", "allocate_scalars"} =>
                sigmap'.num_elements = sigmap.num_elements
          /\ last'.op \in {"allocate_element", "allocate_elements"} =>
                sigmap'.num_scalars = sigmap.num_scalars]_vars

C21_Witness ==
    /\ last.op = "allocate_scalars"
    /\ last.res = Ok(<<1, 2, 3>>)
    /\ sigmap.num_scalars = 4
    /\ sigmap.num_elements = 2

\* The group sum of a sequence of elements, from the right
RECURSIVE GSum(_)
GSum(elems) == IF elems = <<>> THEN G_identity ELSE FAdd(Head(elems), GSum(Tail(elems)))

\* The sum of w[t.scalar] * GroupMap[t.elem] over the terms of lc, taken in
\* the order `order`, a permutation of the positions of lc
TermSum(rel, lc, w, order) ==
    GSum([k \in 1 .. Len(lc) |->
            GMul(ValueOf(rel, lc[order[k]].elem), w[lc[order[k]].scalar + 1])])

Slot(rel, var) ==
    IF var < Len(rel.group_elements) THEN rel.group_elements[var + 1] ELSE None

(* C23: whenever compute_image(w) returns Ok, every image variable is      *)
(* assigned, image() equals evaluate(w) on the resulting relation entry by *)
(* entry, and every slot that is not the slot of an image variable is what *)
(* it was before the call.                                                 *)
C23_ComputeImage ==
    [][(last'.op = "compute_image" /\ IsOk(last'.res)) =>
        /\ \A j \in 1 .. Len(sigmap'.image) : Assigned(sigmap', sigmap'.image[j])
        /\ IsOk(LinearRelation_image(sigmap'))
        /\ LinearRelation_image(sigmap') = LinearMap_evaluate(sigmap', last'.arg.scalars)
        /\ \A var \in 0 .. MaxElements :
                (\A j \in 1 .. Len(sigmap.image) : sigmap.image[j] # var) =>
                    Slot(sigmap', var) = Slot(sigmap, var)]_vars

C23_Witness ==
    /\ last.op = "compute_image"
    /\ IsOk(last.res)
    /\ Len(sigmap.image) = 2
    /\ sigmap.image[1] # sigmap.image[2]
    /\ last.arg.scalars # <<0>>
    /\ \E j \in 1 .. 2 : ValueOf(sigmap, sigmap.image[j]) # G_generator

(* C24: prover_response((r, w), c) with len(r) = len(w) = num_scalars is   *)
(* Ok(z) with z of length num_scalars and z[i] = r[i] + c*w[i] in the      *)
(* scalar field, and every statement with as many scalars, whatever its    *)
(* equations and element values, gives the same z.                         *)
C24_ProverResponse ==
    (/\ last.op = "prover_response"
     /\ Len(last.arg.nonces) = sigmap.num_scalars
     /\ Len(last.arg.witness) = sigmap.num_scalars) =>
        /\ IsOk(last.res)
        /\ Len(last.res.val) = sigmap.num_scalars
        /\ \A i \in 1 .. sigmap.num_scalars :
                last.res.val[i]
                    = (last.arg.nonces[i] + last.arg.challenge * last.arg.witness[i]) % Q
        /\ \A other \in Statements :
                other.num_scalars = sigmap.num_scalars =>
                    SchnorrProof_prover_response(other,
                        [nonces |-> last.arg.nonces, witness |-> last.arg.witness],
                        last.arg.challenge) = last.res

C24_Witness ==
    /\ last.op = "prover_response"
    /\ sigmap.num_scalars = 2
    /\ last.arg.nonces = <<2, 1>>
    /\ last.arg.witness = <<1, 2>>
    /\ last.arg.challenge = 2
    /\ last.res = Ok(<<1, 2>>)
    /\ ~FullyAssigned(sigmap)

\* evaluate(z)[j] = c * X_j + T[j] for every equation j
EquationsHold(rel, commitment, challenge, response) ==
    \A j \in 1 .. Len(rel.constraints) :
        TermSum(rel, rel.constraints[j], response,
                [k \in 1 .. Len(rel.constraints[j]) |-> k])
            = (challenge * ValueOf(rel, rel.image[j]) + commitment[j]) % Q

(* C25: verifier(T, c, z), with len(T) the number of equations, len(z) =   *)
(* num_scalars and every referenced and image element assigned, returns   *)
(* Ok exactly when evaluate(z)[j] = c*X_j + T[j] for every equation j, X_j *)
(* being the value of image[j], and VerificationFailure otherwise.         *)
C25_VerifierEquation ==
    (/\ last.op = "verifier"
     /\ Len(last.arg.commitment) = Len(sigmap.constraints)
     /\ Len(last.arg.response) = sigmap.num_scalars
     /\ FullyAssigned(sigmap)) =>
        IF EquationsHold(sigmap, last.arg.commitment, last.arg.challenge,
                         last.arg.response)
        THEN last.res = Ok(<<>>)
        ELSE last.res = Err("VerificationFailure")

C25_Witness ==
    /\ last.op = "verifier"
    /\ FullyAssigned(sigmap)
    /\ Len(sigmap.constraints) = 2
    /\ Len(last.arg.commitment) = 2
    /\ last.arg.challenge # 0
    /\ last.arg.response # <<0>>
    /\ last.arg.commitment[1] # last.arg.commitment[2]
    /\ last.res = Ok(<<>>)

C25_WitnessRejected ==
    /\ last.op = "verifier"
    /\ FullyAssigned(sigmap)
    /\ Len(last.arg.commitment) = Len(sigmap.constraints)
    /\ Len(last.arg.response) = sigmap.num_scalars
    /\ last.res = Err("VerificationFailure")

\* The steps of one prove call, in the order of the code; an error leads
\* from the commit or from the response straight to the end
ProveOrder ==
    {<<"start", "cloned">>, <<"cloned", "committed">>, <<"committed", "absorbed">>,
     <<"absorbed", "challenged">>, <<"challenged", "responded">>,
     <<"responded", "done">>, <<"cloned", "done">>, <<"challenged", "done">>}

(* C26: inside one prove call the steps happen once each and in the order  *)
(* commit, absorb the serialized commitment, squeeze the challenge,        *)
(* respond, verify. The challenge is squeezed from a codec that has        *)
(* absorbed the commitment; the nonces of the commit are held from the     *)
(* commit to the response, which consumes them; and a step that fails ends *)
(* the call with an error and no transcript.                               *)
C26_ProveSteps ==
    [][(/\ running[1].op \in ProveOps
        /\ running[1].pc \notin {"idle", "done"}
        /\ running'[1].pc # running[1].pc) =>
        /\ <<running[1].pc, running'[1].pc>> \in ProveOrder
        /\ running'[1].pc = "committed" =>
                /\ running'[1].prover_state.nonces = running[1].arg.rng
                /\ Ok(running'[1].commitment)
                        = LinearMap_evaluate(sigmap, running[1].arg.rng)
        /\ running'[1].pc = "absorbed" =>
                running'[1].codec
                    = prover_message(hash_state, CommitmentData(running[1].commitment))
        /\ running'[1].pc = "challenged" =>
                /\ running[1].codec
                    = prover_message(hash_state, CommitmentData(running[1].commitment))
                /\ running'[1].expected = verifier_challenge(running[1].codec)
        /\ running'[1].pc = "responded" =>
                /\ running[1].prover_state.nonces = running[1].arg.rng
                /\ \A i \in 1 .. Len(running[1].arg.rng) :
                        running'[1].response[i]
                            = (running[1].arg.rng[i]
                                + running[1].expected * running[1].arg.witness[i]) % Q
        /\ running'[1].pc \in {"responded", "done"} =>
                running'[1].prover_state = Idle.prover_state
        /\ running'[1].pc \in {"start", "cloned"} =>
                running'[1].prover_state = Idle.prover_state
        /\ (running'[1].pc = "done" /\ running[1].pc # "responded") =>
                running'[1].res.tag = "Err"
        /\ (running'[1].pc = "done" /\ ~IsOk(running'[1].res)) =>
                running'[1].res.val = <<>>
        /\ (running'[1].pc = "done" /\ IsOk(running'[1].res)
                /\ running[1].op = "prove") =>
                running'[1].res.val = Transcript(running[1].commitment,
                                            running[1].expected, running[1].response)]_vars

C26_Witness ==
    /\ running[1].pc = "done"
    /\ running[1].op = "prove"
    /\ IsOk(running[1].res)
    /\ running[1].res.val.challenge # 0
    /\ running[1].arg.witness # <<0>>
    /\ running[1].arg.rng # <<0>>
    /\ running[1].prover_state = Idle.prover_state

-----------------------------------------------------------------------------
\* C27: the expression DSL keeps the term order the caller wrote: Sum + x
\* appends x after the items of the sum, x + Sum[a, b] is x, a, b,
\* Sum + Sum is the left items then the right ones, and a - b is the same
\* ordered sum as a + (-b): a first, then the negated b.
C27_TermOrder ==
    /\ last.op = "Sum + x" =>
           last.res.val = last.arg.lhs \o <<last.arg.rhs>>
    /\ last.op = "x + Sum" =>
           last.res.val = <<last.arg.lhs>> \o last.arg.rhs
    /\ last.op = "Sum + Sum" =>
           last.res.val = last.arg.lhs \o last.arg.rhs
    /\ last.op = "Sum - Sum" =>
           last.res.val = Sum_add_Sum(last.arg.lhs, Sum_neg(last.arg.rhs))
    /\ last.op = "Weighted - Weighted" =>
           last.res.val = Weighted_add(last.arg.lhs, Weighted_neg(last.arg.rhs))

\* What does hold of the DSL: Sum + x and Sum + Sum keep the written order,
\* x + Sum puts x last, and a - b puts the negated b first.
C27_OrderAsEvaluated ==
    /\ last.op = "Sum + x" =>
           last.res.val = last.arg.lhs \o <<last.arg.rhs>>
    /\ last.op = "x + Sum" =>
           last.res.val = last.arg.rhs \o <<last.arg.lhs>>
    /\ last.op = "Sum + Sum" =>
           last.res.val = last.arg.lhs \o last.arg.rhs
    /\ last.op = "Sum - Sum" =>
           last.res.val = Sum_neg(last.arg.rhs) \o last.arg.lhs
    /\ last.op = "Weighted - Weighted" =>
           last.res.val = <<Weighted_neg(last.arg.rhs), last.arg.lhs>>

-----------------------------------------------------------------------------
\* The last call was a prove* of a witness of the right length that does not
\* satisfy some equation of a fully assigned relation whose image is not all
\* identity
FalseWitness ==
    /\ last.op \in ProveOps
    /\ FullyAssigned(sigmap)
    /\ ~AllIdentityImage(sigmap)
    /\ Len(last.arg.witness) = sigmap.num_scalars
    /\ ~Satisfies(sigmap, last.arg.witness)

\* The challenge the last prove* call derived from its commitment
DerivedChallenge ==
    Challenge(Nizk, SchnorrProof_prover_commit(sigmap, last.arg.witness,
                                               last.arg.rng).val.commitment)

\* C28: prove, prove_batchable and prove_compact return VerificationFailure
\* for every false witness, whatever the nonces and whatever the challenge,
\* the zero challenge included.
C28_FalseWitnessRejected ==
    FalseWitness => last.res = Err("VerificationFailure")

\* C28 as amended: a false witness is rejected with VerificationFailure
\* exactly when the derived challenge is not zero; under the zero challenge
\* the proof is returned.
C28_RejectedUnlessZeroChallenge ==
    FalseWitness =>
        IF DerivedChallenge = 0
        THEN IsOk(last.res) /\ proof.t.response = last.arg.rng
        ELSE last.res = Err("VerificationFailure")

C28_Witness ==
    /\ FalseWitness
    /\ DerivedChallenge # 0
    /\ last.op = "prove_compact"
    /\ last.res = Err("VerificationFailure")

\* No false witness is proved under the zero challenge (refuted: one is)
C28_ZeroChallenge ==
    ~(FalseWitness /\ DerivedChallenge = 0 /\ IsOk(last.res))

-----------------------------------------------------------------------------
\* C29: when compute_image returns the error of an unassigned element, every
\* group variable of the relation has the assignment it had before the call:
\* no image variable of an earlier equation has been written.
C29_AllOrNothing ==
    [][(last'.op = "compute_image" /\ last'.res = Err("UnassignedGroupVar")) =>
        \A var \in 0 .. (sigmap.num_elements - 1) :
            Slot(sigmap', var) = Slot(sigmap, var)]_vars

\* What does hold: the slots written by a failed call are image variables of
\* equations before the failing one, and no other slot changes
C29_OnlyImageSlotsWritten ==
    [][(last'.op = "compute_image" /\ last'.res = Err("UnassignedGroupVar")) =>
        \A var \in 0 .. (sigmap.num_elements - 1) :
            Slot(sigmap', var) # Slot(sigmap, var) =>
                /\ Slot(sigmap, var) = None
                /\ \E j \in 1 .. (Len(sigmap.image) - 1) : sigmap.image[j] = var]_vars

-----------------------------------------------------------------------------
\* The inverse of a nonzero scalar
FInv(a) == CHOOSE b \in Scalars : FMul(a, b) = 1

\* The witness extracted from two responses to the challenges c and c2
Extracted(z, z2, c, c2) ==
    [i \in 1 .. Len(z) |-> FMul(FSub(z[i], z2[i]), FInv(FSub(c, c2)))]

\* The accepted transcripts (T, c2, z2) with the commitment T of the last
\* verifier call and another challenge
SecondAccepted ==
    {t \in [challenge : Scalars \ {last.arg.challenge},
            response : Vectors(witness_length(sigmap))] :
        IsOk(SchnorrProof_verifier(sigmap, last.arg.commitment, t.challenge, t.response))}

\* C30: special soundness. On a relation with all elements assigned, when
\* verifier accepts (T, c, z) and (T, c2, z2) with c # c2, the vector
\* w[i] = (z[i] - z2[i]) / (c - c2) satisfies every equation: evaluate(w)
\* is the image.
C30_SpecialSoundness ==
    (last.op = "verifier" /\ IsOk(last.res) /\ FullyAssigned(sigmap)) =>
        \A t \in SecondAccepted :
            /\ Len(t.response) = Len(last.arg.response)
            /\ LinearMap_evaluate(
                    sigmap,
                    Extracted(last.arg.response, t.response,
                              last.arg.challenge, t.challenge))
                = LinearRelation_image(sigmap)
            /\ Satisfies(sigmap, Extracted(last.arg.response, t.response,
                                           last.arg.challenge, t.challenge))

C30_Witness ==
    /\ last.op = "verifier"
    /\ IsOk(last.res)
    /\ FullyAssigned(sigmap)
    /\ Len(sigmap.constraints) = 2
    /\ ~AllIdentityImage(sigmap)
    /\ \E t \in SecondAccepted :
            /\ t.challenge # 0
            /\ last.arg.challenge # 0
            /\ Extracted(last.arg.response, t.response,
                         last.arg.challenge, t.challenge) # <<0>>

=============================================================================
